---- MODULE Spec2Model ----
(***************************************************************************)
(* Weather-risk dashboard (Bluesoft, "Will It Rain On My Parade?").        *)
(*                                                                         *)
(* The model follows the TypeScript sources: the Index page's              *)
(* handleAnalyze with its simulated fallback, the 3D globe's and the 2D    *)
(* map's analyzeWeatherRisk, the location search with its geocoding        *)
(* chain, the two comfort-index calculators and the results dashboard.     *)
(*                                                                         *)
(* Units.  Probabilities are integers in thousandths of a percent          *)
(* (100000 = 100 %), confidences in hundredths (100 = 1.0), a             *)
(* Math.random() draw in thousandths (0..999), instants in hours.          *)
(***************************************************************************)
EXTENDS Integers, Sequences, FiniteSets, TLC

(***************************************************************************)
(* Bounds of the model.                                                    *)
(***************************************************************************)
MaxRuns == 2

(***************************************************************************)
(* Arithmetic helpers.                                                     *)
(***************************************************************************)
\* Math.round(num/den) for den > 0: halves round towards +infinity.
MathRound(num, den) == (2 * num + den) \div (2 * den)

MathMin(a, b) == IF a < b THEN a ELSE b

MathMax(a, b) == IF a > b THEN a ELSE b

MathAbs(a) == IF a < 0 THEN 0 - a ELSE a

\* Values Math.random() can return, in thousandths (0 <= r < 1): both ends.
RandomDraws == {0, 999}

\* Percent (an integer) in the model's probability unit.
Pct(n) == n * 1000

\* date.toISOString().split('T')[0]: the UTC calendar day of an instant.
IsoDay(t) == t \div 24

HoursPerDay == 24

NoData == [kind |-> "none"]

NoLocation == [kind |-> "nowhere"]

(***************************************************************************)
(* State.                                                                  *)
(***************************************************************************)
VARIABLES
    mounted,            \* the component whose handlers run in this behaviour
    backendConfigured,  \* BACKEND_URL is non-empty in this build
    \* Index page (DataSourceIndicator.tsx 221-428)
    selectedLocation, selectedDate, selectorThresholds, thresholds,
    showResults, analysisData, isAnalyzing, toast,
    idxRequest,         \* handleAnalyze awaiting fetch: what its closure captured
    idxOrigin           \* who really supplied analysisData: none/backend/fallback

VARIABLES
    \* Earth3DGlobe (Earth3DGlobe.tsx 979-1040)
    globeLocation,          \* the selectedLocation prop
    eventDate, weatherProbabilities, showAnalysis,
    globeResult,            \* what the last settled analyzeWeatherRisk returned
    globeInFlight,          \* analyzeWeatherRisk calls awaiting their fetch
    globeIssued,            \* number of fetches issued so far
    globeFallbackRuns,      \* every completed fallback run: input and result
    globeRepeated           \* a fallback run repeated the input of an earlier one

globeVars == <<globeLocation, eventDate, weatherProbabilities, showAnalysis,
               globeResult, globeInFlight, globeIssued, globeFallbackRuns,
               globeRepeated>>

VARIABLES
    \* Map2D (Map2D.tsx 384-564)
    mapLocation,            \* the selectedLocation prop
    mapEventDate, mapProbabilities, mapShowAnalysis, mapIsAnalyzing,
    mapInFlight,            \* analyzeWeatherRisk calls awaiting their fetch
    mapIssued,              \* number of fetches issued so far
    mapOrigin,              \* who supplied mapProbabilities: none/backend/fallback
    searchQuery, isSearching,
    searchCall,             \* handleSearch awaiting reverseGeocode or geocode
    alertShown,             \* the last alert() text
    sourceCalls             \* every coordinate handed to an external service

mapVars == <<mapLocation, mapEventDate, mapProbabilities, mapShowAnalysis,
             mapIsAnalyzing, mapInFlight, mapIssued, mapOrigin, searchQuery,
             isSearching, searchCall, alertShown, sourceCalls>>

VARIABLES
    \* WeatherDashboard (WeatherAnalysis.tsx 298-797)
    dashLocation, dashDate, dashAnalysisData,   \* the props
    shownAlternatives,      \* the alternative-date buttons of the last render
    exportedCsv, exportedJson                   \* the last downloaded files

dashVars == <<dashLocation, dashDate, dashAnalysisData, shownAlternatives,
              exportedCsv, exportedJson>>

VARIABLES
    \* one call of GEOCODING_API.geocode (Map2D.tsx 57-166)
    geoQuery,
    geoPending,             \* the fetch being awaited, "idle" or "done"
    geoTried,               \* the providers asked so far, in order
    geoCandidates,          \* the candidates pushed so far
    geoResult               \* what geocode resolved with

geoVars == <<geoQuery, geoPending, geoTried, geoCandidates, geoResult>>

VARIABLES
    \* one evaluation of the globe's local simulation
    calcLocation, calcDate, calcThresholds, calcProbabilities

calcVars == <<calcLocation, calcDate, calcThresholds, calcProbabilities>>

VARIABLES
    \* the analysis engine behind /analyze (specification, sections 4 and 5)
    engine                  \* request id -> that request's private state

engVars == <<engine>>

VARIABLES
    \* useAutoWeather (DataSourceIndicator.tsx 1064-1124)
    autoLocation,           \* the hook's location argument
    weatherType, autoLoading, autoError,
    lastUpdate,             \* the fetch that last set lastUpdate, 0 for null
    autoInFlight,           \* fetchWeather calls awaiting getCurrentWeather
    autoIssued,             \* number of fetchWeather calls so far
    autoInterval            \* the location whose 10-minute interval is set

autoVars == <<autoLocation, weatherType, autoLoading, autoError, lastUpdate,
              autoInFlight, autoIssued, autoInterval>>

idxVars == <<selectedLocation, selectedDate, selectorThresholds, thresholds,
             showResults, analysisData, isAnalyzing, toast, idxRequest, idxOrigin>>

VARIABLES
    \* Map2D area selection (Map2D.tsx 407-411, 419-439, 782-836, 898)
    polygonPoints,          \* the clicked points, as toLatLng places them
    areaRadiusKm,           \* in tenths of a kilometre
    polygonLatLng,
    areaCall,               \* the analyzeWeatherRisk call awaiting its fetch
    areaShown               \* the polygon argument of the analysis on display

areaVars == <<polygonPoints, areaRadiusKm, polygonLatLng, areaCall, areaShown>>

VARIABLES
    \* one call of WindowAggregator.aggregate (specification, section 4.2)
    windowCall,             \* event day of year, window_days and the record
    windowSamples           \* what aggregate returned

winVars == <<windowCall, windowSamples>>

VARIABLES
    \* Index page (DataSourceIndicator.tsx 223, 430-431, 449)
    view                    \* 'hero' or 'app'

viewVars == <<view>>

VARIABLES
    \* CurrentWeatherWidget (part_004 331-369)
    widgetProps,            \* the latitude, longitude and locationName props
    widgetWeatherData,      \* the widget's weatherData state
    loading, error,
    widgetInFlight,         \* fetchWeather calls awaiting getCurrentWeather
    widgetIssued,           \* number of fetchWeather calls so far
    lastFetch               \* the fetchWeather call that completed last

widgetVars == <<widgetProps, widgetWeatherData, loading, error, widgetInFlight,
                widgetIssued, lastFetch>>

VARIABLES
    \* Earth, the globe mesh (Earth3DGlobe.tsx 512-572)
    dragStartRef,           \* dragStartRef.current
    isDragging,
    pointerDownAt,          \* where the last pointer-down happened
    pointerPressed,         \* a pointer-down whose click is still to come
    movedFar,               \* a pointer-move since then was a drag
    lastClick               \* the last click: its point, whether onClick follows

ptrVars == <<dragStartRef, isDragging, pointerDownAt, pointerPressed, movedFar,
             lastClick>>

tailVars == <<widgetVars, ptrVars>>

lateVars == <<areaVars, winVars, viewVars, tailVars>>

notAreaVars == <<idxVars, globeVars, mapVars, dashVars, geoVars, calcVars, engVars,
                 autoVars, winVars, viewVars, tailVars>>

notWinVars == <<idxVars, globeVars, mapVars, dashVars, geoVars, calcVars, engVars,
                autoVars, areaVars, viewVars, tailVars>>

notViewVars == <<globeVars, mapVars, dashVars, geoVars, calcVars, engVars, autoVars,
                 areaVars, winVars, tailVars>>

notWidgetVars == <<mounted, backendConfigured, idxVars, globeVars, mapVars, dashVars,
                   geoVars, calcVars, engVars, autoVars, areaVars, winVars, viewVars,
                   ptrVars>>

notPtrVars == <<mounted, backendConfigured, idxVars, globeVars, mapVars, dashVars,
                geoVars, calcVars, engVars, autoVars, areaVars, winVars, viewVars,
                widgetVars>>

notIdxVars == <<mounted, backendConfigured, globeVars, mapVars, dashVars, geoVars,
                calcVars,
                engVars, autoVars, lateVars>>

notGlobeVars == <<idxVars, mapVars, dashVars, geoVars, calcVars,
                engVars, autoVars, lateVars>>

notMapVars == <<idxVars, globeVars, dashVars, geoVars, calcVars,
                engVars, autoVars, lateVars>>

notDashVars == <<mounted, backendConfigured, idxVars, globeVars, mapVars, geoVars,
                 calcVars,
                engVars, autoVars, lateVars>>

notGeoVars == <<mounted, backendConfigured, idxVars, globeVars, mapVars, dashVars,
                calcVars,
                engVars, autoVars, lateVars>>

notCalcVars == <<mounted, backendConfigured, idxVars, globeVars, mapVars, dashVars,
                 geoVars,
                engVars, autoVars, lateVars>>

notEngVars == <<idxVars, globeVars, mapVars, dashVars, geoVars, calcVars, autoVars,
               lateVars>>

notAutoVars == <<idxVars, globeVars, mapVars, dashVars, geoVars, calcVars, engVars,
                lateVars>>


(***************************************************************************)
(* Comfort index, 3D globe (Earth3DGlobe.tsx 966-977).                     *)
(***************************************************************************)
\* weights[prob.condition] || 0.1, in hundredths
ComfortWeight(condition) ==
    CASE condition = "Very Hot" -> 30
      [] condition = "Very Cold" -> 30
      [] condition = "Heavy Rain" -> 25
      [] condition = "Strong Wind" -> 15
      [] OTHER -> 10

\* discomfort += (prob.probability / 100) * weight, scaled by 10^7
RECURSIVE Discomfort(_)
Discomfort(probabilities) ==
    IF probabilities = <<>> THEN 0
    ELSE Head(probabilities).probability * ComfortWeight(Head(probabilities).condition)
         + Discomfort(Tail(probabilities))

\* Math.round(Math.max(0, Math.min(100, (1 - discomfort) * 100)))
calculateComfortIndex(probabilities) ==
    MathRound(MathMax(0, MathMin(10000000, 10000000 - Discomfort(probabilities))),
              100000)

(***************************************************************************)
(* Comfort index, analysis panel (WeatherAnalysisPanel.tsx 22-37).         *)
(***************************************************************************)
RECURSIVE TotalRisk(_)
TotalRisk(probabilities) ==
    IF probabilities = <<>> THEN 0
    ELSE Head(probabilities).probability + TotalRisk(Tail(probabilities))

\* Math.round(clamp(100 - (totalRisk / maxRisk) * 100)); 0 for an empty list
panelComfortIndex(probabilities) ==
    IF probabilities = <<>> THEN 0
    ELSE LET n == Len(probabilities)
         IN MathRound(MathMax(0, MathMin(100000 * n,
                                         100000 * n - TotalRisk(probabilities))),
                      1000 * n)

(***************************************************************************)
(* The /analyze backend.  Its code (backend/main.py) is not among the      *)
(* sources; the response follows the documented contract.                  *)
(***************************************************************************)
BackendLevels == {Pct(0), 25500, Pct(100)}

BackendDatasets == {<<"MERRA-2", "GPM IMERG">>, <<"Synthetic">>}

\* What the awaited fetch of /analyze can do: resolve OK with a body that
\* parses, resolve with a non-OK status, reject (network), or resolve OK with
\* a body response.json() cannot parse.
FetchOutcomes == {"ok", "http_error", "network_error", "parse_error"}

Threshold(dir, value, unit) == [dir |-> dir, value |-> value, unit |-> unit]

BackendProbabilities(req, level) ==
    << [condition |-> "Very Hot", probability |-> level,
        threshold |-> Threshold(">", req.thresholds.hot_temp, "C"),
        trend |-> "increasing", confidence |-> 85, historical_mean |-> 283,
        trend_slope |-> 25, p_value |-> 40],
       [condition |-> "Heavy Rain", probability |-> Pct(100) - level,
        threshold |-> Threshold(">", req.thresholds.precipitation, "mm"),
        trend |-> "stable", confidence |-> 72, historical_mean |-> 32,
        trend_slope |-> 5, p_value |-> 250],
       [condition |-> "Strong Wind", probability |-> level,
        threshold |-> Threshold(">", req.thresholds.wind_speed, "m/s"),
        trend |-> "stable", confidence |-> 65, historical_mean |-> 85,
        trend_slope |-> -1, p_value |-> 300] >>

BackendResponses(req) ==
    { [kind |-> "analysis",
       location |-> [latitude |-> req.latitude, longitude |-> req.longitude],
       event_date |-> req.event_date,
       comfort_index |-> calculateComfortIndex(BackendProbabilities(req, level)),
       probabilities |-> BackendProbabilities(req, level),
       alternative_dates |->
           << [date |-> req.event_date - 7, comfort_index |-> 78,
               offset_days |-> -7, recommendation |-> "Better"] >>,
       metadata |-> [datasets_used |-> ds, years_analyzed |-> "1990-2024",
                     confidence_level |-> "85%", data_window |-> "+-7 days"]]
      : level \in BackendLevels, ds \in BackendDatasets }

(***************************************************************************)
(* Calendar.  Dates are instants in hours since 2025-01-01T00:00Z.         *)
(***************************************************************************)
\* Day index (0-based) on which each month of 2025 starts, and the year's end.
MonthStart == <<0, 31, 59, 90, 120, 151, 181, 212, 243, 273, 304, 334, 365>>

\* date.getMonth(): 0 = January .. 11 = December
GetMonth(t) ==
    CHOOSE m \in 0..11 : MonthStart[m + 1] <= IsoDay(t) /\ IsoDay(t) < MonthStart[m + 2]

(***************************************************************************)
(* 3D globe: local simulation (Earth3DGlobe.tsx 929-964).                  *)
(***************************************************************************)
\* Variant of Clamp that leaves the value as computed.
NoClamp(lo, hi, x) == x

\* Math.min(hi, Math.max(lo, x)), lo and hi in percent
Clamp(lo, hi, x) == MathMin(Pct(hi), MathMax(Pct(lo), x))

\* the initial weatherThresholds (993-999)
DefaultThresholds == [hotTemp |-> 32, coldTemp |-> 0, precipitation |-> 5,
                      windSpeed |-> 15]

\* Variant of the local simulation in which the "Very Hot" probability grows
\* with the hot threshold.
localGrowingWithThreshold(location, date, thr) ==
    LET month == GetMonth(date)
        lat == MathAbs(location.lat)
    IN << [condition |-> "Very Hot",
           probability |->
               Clamp(5, 90, Pct((30 - lat) * 2 + thr.hotTemp
                                + (IF month >= 5 /\ month <= 8 THEN 30 ELSE 0))),
           threshold |-> Threshold(">", thr.hotTemp, "C"),
           trend |-> IF lat < 30 THEN "increasing" ELSE "stable",
           confidence |-> 85],
          [condition |-> "Very Cold",
           probability |->
               Clamp(5, 90, lat * 1500
                            + Pct(IF month >= 11 \/ month <= 2 THEN 40 ELSE 0)),
           threshold |-> Threshold("<", thr.coldTemp, "C"),
           trend |-> IF lat > 40 THEN "increasing" ELSE "stable",
           confidence |-> 78],
          [condition |-> "Heavy Rain",
           probability |->
               Clamp(10, 85, Pct(25 + (IF month >= 6 /\ month <= 9 THEN 35 ELSE 0)
                                 + (IF lat < 10 THEN 20 ELSE 0))),
           threshold |-> Threshold(">", thr.precipitation, "mm"),
           trend |-> "increasing",
           confidence |-> 72],
          [condition |-> "Strong Wind",
           probability |->
               Clamp(8, 75, Pct(15 + (IF lat > 40 THEN 25 ELSE 0)
                                + (IF month >= 10 \/ month <= 3 THEN 20 ELSE 0))),
           threshold |-> Threshold(">", thr.windSpeed, "m/s"),
           trend |-> "stable",
           confidence |-> 65] >>

calculateWeatherProbabilitiesLocal(location, date, thr) ==
    LET month == GetMonth(date)
        lat == MathAbs(location.lat)
    IN << [condition |-> "Very Hot",
           probability |->
               Clamp(5, 90, Pct((30 - lat) * 2
                                + (IF month >= 5 /\ month <= 8 THEN 30 ELSE 0))),
           threshold |-> Threshold(">", thr.hotTemp, "C"),
           trend |-> IF lat < 30 THEN "increasing" ELSE "stable",
           confidence |-> 85],
          [condition |-> "Very Cold",
           probability |->
               Clamp(5, 90, lat * 1500
                            + Pct(IF month >= 11 \/ month <= 2 THEN 40 ELSE 0)),
           threshold |-> Threshold("<", thr.coldTemp, "C"),
           trend |-> IF lat > 40 THEN "increasing" ELSE "stable",
           confidence |-> 78],
          [condition |-> "Heavy Rain",
           probability |->
               Clamp(10, 85, Pct(25 + (IF month >= 6 /\ month <= 9 THEN 35 ELSE 0)
                                 + (IF lat < 10 THEN 20 ELSE 0))),
           threshold |-> Threshold(">", thr.precipitation, "mm"),
           trend |-> "increasing",
           confidence |-> 72],
          [condition |-> "Strong Wind",
           probability |->
               Clamp(8, 75, Pct(15 + (IF lat > 40 THEN 25 ELSE 0)
                                + (IF month >= 10 \/ month <= 3 THEN 20 ELSE 0))),
           threshold |-> Threshold(">", thr.windSpeed, "m/s"),
           trend |-> "stable",
           confidence |-> 65] >>

\* The request body analyzeWeatherRisk posts (888-898)
globeRequest(location, date, thr) ==
    [latitude |-> location.lat,
     longitude |-> location.lng,
     event_date |-> IsoDay(date),
     thresholds |-> [hot_temp |-> thr.hotTemp, cold_temp |-> thr.coldTemp,
                     precipitation |-> thr.precipitation,
                     wind_speed |-> thr.windSpeed]]

\* Variant of the catch block that simulates for the component's current
\* eventDate instead of the date it was called with.
globeFallbackForCurrentDate(location, date, thr) ==
    [kind |-> "result",
     origin |-> "fallback",
     threw |-> FALSE,
     probabilities |-> calculateWeatherProbabilitiesLocal(location, eventDate, thr),
     comfortIndex |-> 65,
     alternatives |-> <<>>,
     metadata |-> [datasets_used |-> <<"Fallback simulation">>]]

\* What analyzeWeatherRisk's catch block returns (913-926)
globeFallback(location, date, thr) ==
    [kind |-> "result",
     origin |-> "fallback",
     threw |-> FALSE,
     probabilities |-> calculateWeatherProbabilitiesLocal(location, date, thr),
     comfortIndex |-> 65,
     alternatives |-> <<>>,
     metadata |-> [datasets_used |-> <<"Fallback simulation">>]]

\* Variant of analyzeWeatherRisk whose catch block lets a body that cannot be
\* parsed escape to the caller.
analyzeWeatherRiskRethrowing(location, date, thr, outcome, data) ==
    IF outcome = "ok"
    THEN [kind |-> "result", origin |-> "backend", threw |-> FALSE,
          probabilities |-> data.probabilities, comfortIndex |-> data.comfort_index,
          alternatives |-> data.alternative_dates, metadata |-> data.metadata]
    ELSE IF outcome = "parse_error"
    THEN [kind |-> "result", origin |-> "error", threw |-> TRUE,
          probabilities |-> <<>>, comfortIndex |-> 0, alternatives |-> <<>>,
          metadata |-> NoData]
    ELSE [kind |-> "result", origin |-> "fallback", threw |-> FALSE,
          probabilities |-> calculateWeatherProbabilitiesLocal(location, date, thr),
          comfortIndex |-> 65, alternatives |-> <<>>,
          metadata |-> [datasets_used |-> <<"Fallback simulation">>]]

\* What analyzeWeatherRisk returns once its fetch has settled (901-926): the
\* backend's data on success, the local simulation on any error.
analyzeWeatherRisk(location, date, thr, outcome, data) ==
    IF outcome = "ok"
    THEN [kind |-> "result",
          origin |-> "backend",
          threw |-> FALSE,
          probabilities |-> data.probabilities,
          comfortIndex |-> data.comfort_index,
          alternatives |-> data.alternative_dates,
          metadata |-> data.metadata]
    ELSE globeFallback(location, date, thr)

\* Locations the Index page can pass as the selectedLocation prop.
GlobeLocations == {[lat |-> 0, lng |-> 0], [lat |-> 28, lng |-> 77],
                   [lat |-> -45, lng |-> 170], [lat |-> 90, lng |-> 0]}

\* Dates of the date input: 15 January and 4 July (00:00Z).
GlobeDates == {336, 4416}

RunRecord(req, result) ==
    [loc |-> req.loc, date |-> req.date, thr |-> req.thr,
     probabilities |-> result.probabilities, comfortIndex |-> result.comfortIndex,
     metadata |-> result.metadata]

\* The effect's analyzeWeather after analyzeWeatherRisk resolved or rejected
\* (1023-1033)
GlobeApply(req, result) ==
    /\ weatherProbabilities' =
          IF result.threw
          THEN calculateWeatherProbabilitiesLocal(req.loc, req.date, req.thr)
          ELSE result.probabilities
    /\ showAnalysis' = TRUE
    /\ globeResult' = result
    /\ globeFallbackRuns' =
          IF result.origin = "fallback"
          THEN globeFallbackRuns \cup {RunRecord(req, result)}
          ELSE globeFallbackRuns
    /\ globeRepeated' =
          \/ globeRepeated
          \/ /\ result.origin = "fallback"
             /\ \E run \in globeFallbackRuns :
                   <<run.loc, run.date, run.thr>> = <<req.loc, req.date, req.thr>>

\* The effect of 1020-1040 for the props and state given: without a backend
\* analyzeWeatherRisk throws before its fetch and resolves with the local
\* simulation at once; with one, the call waits for its fetch.
GlobeEffect(loc, date) ==
    LET req == [loc |-> loc, date |-> date, thr |-> DefaultThresholds] IN
    IF loc = NoLocation
    THEN /\ showAnalysis' = FALSE
         /\ UNCHANGED <<weatherProbabilities, globeResult, globeInFlight, globeIssued,
                        globeFallbackRuns, globeRepeated>>
    ELSE IF ~backendConfigured
    THEN /\ GlobeApply(req, analyzeWeatherRisk(loc, date, req.thr, "no_backend", NoData))
         /\ UNCHANGED <<globeInFlight, globeIssued>>
    ELSE /\ globeIssued < MaxRuns
         /\ globeIssued' = globeIssued + 1
         /\ globeInFlight' = globeInFlight \cup {[id |-> globeIssued + 1, req |-> req]}
         /\ UNCHANGED <<weatherProbabilities, showAnalysis, globeResult,
                        globeFallbackRuns, globeRepeated>>

\* The Index page passes a new selectedLocation prop.
GlobeSelectLocation(loc) ==
    /\ mounted = "Globe"
    /\ loc # globeLocation
    /\ globeLocation' = loc
    /\ GlobeEffect(loc, eventDate)
    /\ UNCHANGED <<eventDate, mounted, backendConfigured>>
    /\ UNCHANGED notGlobeVars

\* The date input's onChange (1458-1467): only a valid date is taken.
GlobeSetEventDate(d) ==
    /\ mounted = "Globe"
    /\ d # eventDate
    /\ eventDate' = d
    /\ GlobeEffect(globeLocation, d)
    /\ UNCHANGED <<globeLocation, mounted, backendConfigured>>
    /\ UNCHANGED notGlobeVars

\* A fetch of analyzeWeatherRisk settles and the effect's continuation runs.
GlobeSettled(call, outcome) ==
    /\ mounted = "Globe"
    /\ call \in globeInFlight
    /\ globeInFlight' = globeInFlight \ {call}
    /\ \E data \in BackendResponses(
                      globeRequest(call.req.loc, call.req.date, call.req.thr)) :
          GlobeApply(call.req,
                     analyzeWeatherRisk(call.req.loc, call.req.date, call.req.thr,
                                        outcome, data))
    /\ UNCHANGED <<globeLocation, eventDate, globeIssued, mounted, backendConfigured>>
    /\ UNCHANGED notGlobeVars

\* The state after the first render: no location, so the effect hides the panel.
GlobeStart ==
    /\ globeLocation = NoLocation
    /\ eventDate = 4416
    /\ weatherProbabilities = <<>>
    /\ showAnalysis = FALSE
    /\ globeResult = NoData
    /\ globeInFlight = {}
    /\ globeIssued = 0
    /\ globeFallbackRuns = {}
    /\ globeRepeated = FALSE

(***************************************************************************)
(* 2D map: analysis (Map2D.tsx 419-482).                                   *)
(***************************************************************************)
\* The three Math.random() draws of the catch block, in source order.
MapDraws == [temperature : RandomDraws, precipitation : RandomDraws,
             wind : RandomDraws]

\* Math.random() * span + base, base and span in percent
ScaledDraw(base, span, r) == span * r + Pct(base)

\* fallbackProbabilities of analyzeWeatherRisk's catch block (448-452)
fallbackProbabilities(r) ==
    << [condition |-> "Temperature", probability |-> ScaledDraw(20, 30, r.temperature),
        threshold |-> Threshold(">", 32, "C"), trend |-> "stable", confidence |-> 70],
       [condition |-> "Precipitation",
        probability |-> ScaledDraw(10, 40, r.precipitation),
        threshold |-> Threshold(">", 5, "mm"), trend |-> "stable", confidence |-> 60],
       [condition |-> "Wind Speed", probability |-> ScaledDraw(5, 25, r.wind),
        threshold |-> Threshold(">", 15, "m/s"), trend |-> "stable",
        confidence |-> 80] >>

\* Variant of analyzeWeatherRisk's tail that clears isAnalyzing at the end of
\* the try only, not in a finally.
MapApplyWithoutFinally(outcome, data, r) ==
    /\ mapProbabilities' = IF outcome = "ok" THEN data.probabilities
                           ELSE fallbackProbabilities(r)
    /\ mapOrigin' = IF outcome = "ok" THEN "backend" ELSE "fallback"
    /\ mapShowAnalysis' = TRUE
    /\ mapIsAnalyzing' = IF outcome = "ok" THEN FALSE ELSE mapIsAnalyzing

\* analyzeWeatherRisk after its fetch settled (440-459): the try's tail or the
\* catch, then the finally.
MapApply(outcome, data, r) ==
    /\ mapProbabilities' = IF outcome = "ok" THEN data.probabilities
                           ELSE fallbackProbabilities(r)
    /\ mapOrigin' = IF outcome = "ok" THEN "backend" ELSE "fallback"
    /\ mapShowAnalysis' = TRUE
    /\ mapIsAnalyzing' = FALSE

\* analyzeWeatherRisk(lat, lng, date) up to its await (419-439).  Every
\* coordinate it posts is a call to an external service.
MapAnalyze(loc, date) ==
    IF ~backendConfigured
    THEN /\ \E r \in MapDraws : MapApply("no_backend", NoData, r)
         /\ UNCHANGED <<mapInFlight, mapIssued, sourceCalls>>
    ELSE /\ mapIssued < MaxRuns
         /\ mapIssued' = mapIssued + 1
         /\ mapIsAnalyzing' = TRUE
         /\ mapInFlight' = mapInFlight \cup
               {[id |-> mapIssued + 1,
                 req |-> [loc |-> loc, date |-> date, thr |-> DefaultThresholds]]}
         /\ sourceCalls' = sourceCalls \cup
               {[api |-> "analyze", lat |-> loc.lat, lng |-> loc.lng]}
         /\ UNCHANGED <<mapProbabilities, mapShowAnalysis, mapOrigin>>

\* A fetch of analyzeWeatherRisk settles.
MapSettled(call, outcome) ==
    /\ mounted = "Map2D"
    /\ call \in mapInFlight
    /\ mapInFlight' = mapInFlight \ {call}
    /\ IF outcome = "ok"
       THEN \E data \in BackendResponses(
                   globeRequest(call.req.loc, call.req.date, call.req.thr)) :
               MapApply(outcome, data, CHOOSE r \in MapDraws : TRUE)
       ELSE \E r \in MapDraws : MapApply(outcome, NoData, r)
    /\ UNCHANGED <<mapLocation, mapEventDate, mapIssued, searchQuery, isSearching,
                   searchCall, alertShown, sourceCalls, mounted, backendConfigured>>
    /\ UNCHANGED notMapVars

\* "Check My Day" (664-672): disabled without a location and while analysing.
MapCheckMyDay ==
    /\ mounted = "Map2D"
    /\ mapLocation # NoLocation /\ ~mapIsAnalyzing
    /\ MapAnalyze(mapLocation, mapEventDate)
    /\ UNCHANGED <<mapLocation, mapEventDate, searchQuery, isSearching, searchCall,
                   alertShown, mounted, backendConfigured>>
    /\ UNCHANGED notMapVars

\* The date input's onChange (658-663) and the effect of 478-482.
MapSetEventDate(d) ==
    /\ mounted = "Map2D"
    /\ d # mapEventDate
    /\ mapEventDate' = d
    /\ IF mapLocation # NoLocation
       THEN MapAnalyze(mapLocation, d)
       ELSE UNCHANGED <<mapProbabilities, mapShowAnalysis, mapIsAnalyzing, mapInFlight,
                        mapIssued, mapOrigin, sourceCalls>>
    /\ UNCHANGED <<mapLocation, searchQuery, isSearching, searchCall, alertShown,
                   mounted, backendConfigured>>
    /\ UNCHANGED notMapVars

(***************************************************************************)
(* 2D map: location search (Map2D.tsx 57-70, 484-564).                     *)
(***************************************************************************)
\* A typed query: two numbers with what separates them, two unsigned numbers
\* with hemisphere letters, or a place name.
CoordQuery(lat, sep, lng) == [kind |-> "coords", lat |-> lat, sep |-> sep, lng |-> lng]

DegreeQuery(lat, ns, lng, ew) ==
    [kind |-> "degrees", lat |-> lat, ns |-> ns, lng |-> lng, ew |-> ew]

NameQuery(text) == [kind |-> "name", text |-> text]

Queries == {CoordQuery(28, ", ", 77), CoordQuery(95, ", ", 200),
            CoordQuery(95, " ,", 200), CoordQuery(-45, " ", 170),
            DegreeQuery(45, "S", 170, "E"), NameQuery("Delhi")}

\* parseCoordinates (485-519): "lat, lng" with the comma right after the first
\* number, degrees with N/S and E/W, or two numbers separated by blanks.
parseCoordinates(q) ==
    IF q.kind = "coords" /\ q.sep \in {",", ", "}
    THEN [lat |-> q.lat, lng |-> q.lng]
    ELSE IF q.kind = "degrees"
    THEN [lat |-> IF q.ns = "S" THEN 0 - q.lat ELSE q.lat,
          lng |-> IF q.ew = "W" THEN 0 - q.lng ELSE q.lng]
    ELSE IF q.kind = "coords" /\ q.sep = " "
    THEN [lat |-> q.lat, lng |-> q.lng]
    ELSE NoLocation

\* The coordinate pattern of GEOCODING_API.geocode (60): blanks allowed on
\* both sides of the comma, at most two digits of latitude and three of
\* longitude before the decimal point.
coordMatch(q) ==
    IF /\ q.kind = "coords"
       /\ q.sep \in {",", ", ", " ,"}
       /\ MathAbs(q.lat) < 100
       /\ MathAbs(q.lng) < 1000
    THEN [lat |-> q.lat, lng |-> q.lng]
    ELSE NoLocation

\* The range check of handleSearch (531)
validRange(coords) ==
    coords.lat >= -90 /\ coords.lat <= 90 /\ coords.lng >= -180 /\ coords.lng <= 180

\* What the providers can answer for a place name: nothing, or a place.
GeocodeHits == {NoLocation, [lat |-> 28, lng |-> 77]}

\* onLocationSelect(lat, lng, name): the Index page stores the location, the
\* selectedLocation prop changes and the effect of 463-470 analyses it.
MapLocationSelected(loc) ==
    /\ mapLocation' = loc
    /\ MapAnalyze(loc, mapEventDate)

MapNoAnalysis ==
    UNCHANGED <<mapLocation, mapProbabilities, mapShowAnalysis, mapIsAnalyzing,
                mapInFlight, mapIssued, mapOrigin>>

\* handleSearch up to its first await (521-550)
HandleSearch(q) ==
    /\ mounted = "Map2D"
    /\ ~isSearching /\ searchCall = NoData
    /\ searchQuery' = q
    /\ LET coords == parseCoordinates(q) IN
       IF coords # NoLocation
       THEN IF validRange(coords)
            THEN /\ isSearching' = TRUE
                 /\ searchCall' = [stage |-> "reverseGeocode", coords |-> coords]
                 /\ sourceCalls' = sourceCalls \cup
                       {[api |-> "reverseGeocode", lat |-> coords.lat,
                         lng |-> coords.lng]}
                 /\ UNCHANGED alertShown
            ELSE /\ alertShown' = "Invalid coordinates"
                 /\ isSearching' = FALSE
                 /\ UNCHANGED <<searchCall, sourceCalls>>
       ELSE /\ isSearching' = TRUE
            /\ searchCall' = [stage |-> "geocode", q |-> q]
            /\ sourceCalls' =
                  IF coordMatch(q) # NoLocation
                  THEN sourceCalls \cup
                          {[api |-> "reverseGeocode", lat |-> coordMatch(q).lat,
                            lng |-> coordMatch(q).lng]}
                  ELSE sourceCalls
            /\ UNCHANGED alertShown
    /\ MapNoAnalysis
    /\ UNCHANGED <<mapEventDate, mounted, backendConfigured>>
    /\ UNCHANGED notMapVars

\* handleSearch after reverseGeocode resolved (533-541); reverseGeocode
\* resolves with a name or with null, and either way the location is taken.
SearchReverseSettled ==
    /\ mounted = "Map2D"
    /\ searchCall # NoData /\ searchCall.stage = "reverseGeocode"
    /\ MapLocationSelected(searchCall.coords)
    /\ searchQuery' = NoData
    /\ isSearching' = FALSE
    /\ searchCall' = NoData
    /\ UNCHANGED <<mapEventDate, alertShown, mounted, backendConfigured>>
    /\ UNCHANGED notMapVars

\* handleSearch after GEOCODING_API.geocode resolved (550-563): geocode gives
\* the matched coordinates of a "lat,lng" query, else what the providers found.
SearchGeocodeSettled(hit) ==
    /\ mounted = "Map2D"
    /\ searchCall # NoData /\ searchCall.stage = "geocode"
    /\ LET result == IF coordMatch(searchCall.q) # NoLocation
                     THEN coordMatch(searchCall.q)
                     ELSE hit
       IN IF result # NoLocation
          THEN /\ MapLocationSelected(result)
               /\ searchQuery' = NoData
               /\ UNCHANGED alertShown
          ELSE /\ alertShown' = "Location not found"
               /\ MapNoAnalysis
               /\ UNCHANGED <<searchQuery, sourceCalls>>
    /\ isSearching' = FALSE
    /\ searchCall' = NoData
    /\ UNCHANGED <<mapEventDate, mounted, backendConfigured>>
    /\ UNCHANGED notMapVars

MapDates == {336, 4416}

MapStart ==
    /\ mapLocation = NoLocation
    /\ mapEventDate = 4416
    /\ mapProbabilities = <<>>
    /\ mapShowAnalysis = FALSE
    /\ mapIsAnalyzing = FALSE
    /\ mapInFlight = {}
    /\ mapIssued = 0
    /\ mapOrigin = "none"
    /\ searchQuery = NoData
    /\ isSearching = FALSE
    /\ searchCall = NoData
    /\ alertShown = "none"
    /\ sourceCalls = {}

(***************************************************************************)
(* Index page (DataSourceIndicator.tsx 221-428, 576-636, 749-764).         *)
(***************************************************************************)
\* Locations a click on the globe or the map hands to handleLocationSelect.
IndexLocations == {[lat |-> 28, lng |-> 77], [lat |-> -45, lng |-> 170]}

\* Instants the calendar hands to setSelectedDate: local midnights, in hours
\* (UTC); the second one is a midnight east of Greenwich.
IndexDates == {4392, 4410}

\* DateThresholdSelector's initial thresholds (part_003 33-39).
InitialSelectorThresholds ==
    [temperature |-> [enabled |-> TRUE, value |-> 32],
     precipitation |-> [enabled |-> TRUE, value |-> 5],
     wind |-> [enabled |-> FALSE, value |-> 15],
     humidity |-> [enabled |-> FALSE, value |-> 70],
     air_quality |-> [enabled |-> FALSE, value |-> 25]]

\* The edits of the threshold panel the model explores: <<type, field, value>>.
ThresholdEdits == {<<"temperature", "value", 40>>}

\* requestData of handleAnalyze (314-327)
requestData(loc, date, thr) ==
    [latitude |-> loc.lat,
     longitude |-> loc.lng,
     event_date |-> IsoDay(date),
     thresholds |->
        [hot_temp |-> IF thr.temperature.enabled THEN thr.temperature.value ELSE 32,
         cold_temp |-> 0,
         precipitation |-> IF thr.precipitation.enabled THEN thr.precipitation.value ELSE 5,
         wind_speed |-> IF thr.wind.enabled THEN thr.wind.value ELSE 15,
         air_quality |-> IF thr.air_quality.enabled THEN thr.air_quality.value ELSE 25]]

\* The six Math.random() draws of the catch block, in source order.
IndexDraws == [comfort : RandomDraws, temperature : RandomDraws,
               precipitation : RandomDraws, wind : RandomDraws,
               alt1 : RandomDraws, alt2 : RandomDraws]

\* Math.round(base + Math.random() * span), base and span in percent
RoundedDraw(base, span, r) == MathRound(base * 1000 + span * r, 1000)

\* Variant of the catch block that builds no analysis.
noFallbackAnalysis(loc, date, r) == NoData

\* fallbackAnalysis of handleAnalyze's catch block (359-416)
fallbackAnalysis(loc, date, r) ==
    [kind |-> "analysis",
     location |-> [latitude |-> loc.lat, longitude |-> loc.lng],
     event_date |-> IsoDay(date),
     comfort_index |-> RoundedDraw(60, 30, r.comfort),
     probabilities |->
        << [condition |-> "Temperature",
            probability |-> Pct(RoundedDraw(20, 30, r.temperature)),
            threshold |-> Threshold(">", 32, "C"), trend |-> "stable",
            confidence |-> 70, historical_mean |-> 280, trend_slope |-> 100,
            p_value |-> 50],
           [condition |-> "Precipitation",
            probability |-> Pct(RoundedDraw(10, 40, r.precipitation)),
            threshold |-> Threshold(">", 5, "mm"), trend |-> "stable",
            confidence |-> 60, historical_mean |-> 30, trend_slope |-> 200,
            p_value |-> 30],
           [condition |-> "Wind Speed",
            probability |-> Pct(RoundedDraw(5, 25, r.wind)),
            threshold |-> Threshold(">", 15, "m/s"), trend |-> "stable",
            confidence |-> 80, historical_mean |-> 80, trend_slope |-> -100,
            p_value |-> 80] >>,
     alternative_dates |->
        << [date |-> IsoDay(date + HoursPerDay),
            comfort_index |-> RoundedDraw(70, 20, r.alt1),
            offset_days |-> 1, recommendation |-> "Better"],
           [date |-> IsoDay(date + 2 * HoursPerDay),
            comfort_index |-> RoundedDraw(65, 25, r.alt2),
            offset_days |-> 2, recommendation |-> "Monitor"] >>,
     metadata |-> [datasets_used |-> <<"Fallback simulation">>,
                   years_analyzed |-> "2020-2024",
                   confidence_level |-> "Medium",
                   data_window |-> "Fallback mode - Backend unavailable"]]


\* The samples handleAnalyze's catch block obtains for a condition before it
\* writes the entry (357-394): it fetches and draws none.
fallbackSamples(condition) == << >>

\* Which branch of handleAnalyze's try/catch an outcome takes (340-355): the
\* try body runs to its end, or control passes to the catch block.
IndexBranch(outcome) == IF outcome = "ok" THEN "try" ELSE "catch"

\* handleLocationSelect (241-243), reached from the globe or the map
HandleLocationSelect(loc) ==
    /\ mounted = "Index" /\ ~showResults
    /\ selectedLocation' = loc
    /\ UNCHANGED <<selectedDate, selectorThresholds, thresholds, showResults,
                   analysisData, isAnalyzing, toast, idxRequest, idxOrigin>>
    /\ UNCHANGED notIdxVars

\* Calendar onSelect / DateThresholdSelector.onDateChange (579, 633)
SetSelectedDate(d) ==
    /\ mounted = "Index" /\ ~showResults
    /\ selectedDate' = d
    /\ UNCHANGED <<selectedLocation, selectorThresholds, thresholds, showResults,
                   analysisData, isAnalyzing, toast, idxRequest, idxOrigin>>
    /\ UNCHANGED notIdxVars

\* DateThresholdSelector.handleThresholdChange (part_003 48-62) with
\* onThresholdsChange = setThresholds (634)
HandleThresholdChange(type, field, value) ==
    /\ mounted = "Index" /\ ~showResults
    /\ LET newThresholds ==
              [selectorThresholds EXCEPT ![type] = [@ EXCEPT ![field] = value]]
       IN /\ selectorThresholds' = newThresholds
          /\ thresholds' = newThresholds
    /\ UNCHANGED <<selectedLocation, selectedDate, showResults, analysisData,
                   isAnalyzing, toast, idxRequest, idxOrigin>>
    /\ UNCHANGED notIdxVars

\* handleAnalyze up to its await (297-338).  The button that calls it is
\* rendered only with a location and thresholds and is disabled while
\* isAnalyzing (600-606).
HandleAnalyze ==
    /\ mounted = "Index" /\ ~showResults
    /\ selectedLocation # NoLocation /\ thresholds # NoData
    /\ ~isAnalyzing
    /\ isAnalyzing' = TRUE
    /\ idxRequest' = [kind |-> "request", loc |-> selectedLocation,
                      date |-> selectedDate,
                      data |-> requestData(selectedLocation, selectedDate, thresholds)]
    /\ UNCHANGED <<selectedLocation, selectedDate, selectorThresholds, thresholds,
                   showResults, analysisData, toast, idxOrigin>>
    /\ UNCHANGED notIdxVars

\* handleAnalyze after its await: the rest of the try, or the catch, then the
\* finally (340-427).  data is the body of an ok response, r the draws of
\* the catch block.
HandleAnalyzeSettled(outcome, data, r) ==
    /\ mounted = "Index" /\ idxRequest # NoData
    /\ IF IndexBranch(outcome) = "try"
       THEN /\ analysisData' = data
            /\ idxOrigin' = "backend"
            /\ toast' = "Analysis Complete!"
       ELSE /\ analysisData' = fallbackAnalysis(idxRequest.loc, idxRequest.date, r)
            /\ idxOrigin' = "fallback"
            /\ toast' = "Analysis Complete (Fallback Mode)"
    /\ showResults' = TRUE
    /\ isAnalyzing' = FALSE
    /\ idxRequest' = NoData
    /\ UNCHANGED <<selectedLocation, selectedDate, selectorThresholds, thresholds>>
    /\ UNCHANGED notIdxVars

\* The fetch of the pending request settles: ok with one of the bodies the
\* backend can send, or with an error and the draws in rs.
IndexFetchSettles(rs) ==
    /\ idxRequest # NoData
    /\ \/ \E data \in BackendResponses(idxRequest.data) :
             HandleAnalyzeSettled("ok", data, CHOOSE r \in rs : TRUE)
       \/ \E outcome \in FetchOutcomes \ {"ok"}, r \in rs :
             HandleAnalyzeSettled(outcome, NoData, r)

\* "Back to Selection" (751-758)
BackToSelection ==
    /\ mounted = "Index" /\ showResults
    /\ showResults' = FALSE
    /\ UNCHANGED <<selectedLocation, selectedDate, selectorThresholds, thresholds,
                   analysisData, isAnalyzing, toast, idxRequest, idxOrigin>>
    /\ UNCHANGED notIdxVars

IndexStart ==
    /\ selectedLocation = NoLocation
    /\ selectedDate = 4392
    /\ selectorThresholds = InitialSelectorThresholds
    /\ thresholds = NoData
    /\ showResults = FALSE
    /\ analysisData = NoData
    /\ isAnalyzing = FALSE
    /\ toast = "none"
    /\ idxRequest = NoData
    /\ idxOrigin = "none"

(***************************************************************************)
(* Results dashboard (WeatherAnalysis.tsx 298-797).                        *)
(***************************************************************************)
\* the demo weatherData used when no data prop is given (307-314)
weatherData ==
    [temperature |-> [value |-> 32, probability |-> Pct(22)],
     precipitation |-> [value |-> 5, probability |-> Pct(35)],
     wind |-> [value |-> 15, probability |-> Pct(12)],
     humidity |-> [value |-> 70, probability |-> Pct(45)],
     comfortScore |-> 72,
     alternativeDates |-> <<"July 2", "July 8", "July 15">>]

\* the metadata both exports fall back to (373-379, 432-438)
defaultMetadata ==
    [datasets_used |-> <<"MERRA-2", "GPM IMERG">>, years_analyzed |-> "1990-2024",
     confidence_level |-> "85%", data_window |-> "+-7 days"]

\* the probabilities handleExportCSV falls back to (381-386)
defaultProbabilities ==
    << [condition |-> "Very Hot", probability |-> weatherData.temperature.probability,
        threshold |-> Threshold(">", 32, "C"), trend |-> "increasing",
        confidence |-> 85, historical_mean |-> 283, trend_slope |-> 25, p_value |-> 40],
       [condition |-> "Heavy Rain",
        probability |-> weatherData.precipitation.probability,
        threshold |-> Threshold(">", 5, "mm"), trend |-> "stable",
        confidence |-> 72, historical_mean |-> 32, trend_slope |-> 5, p_value |-> 250],
       [condition |-> "Strong Wind", probability |-> weatherData.wind.probability,
        threshold |-> Threshold(">", 15, "m/s"), trend |-> "stable",
        confidence |-> 65, historical_mean |-> 85, trend_slope |-> -1, p_value |-> 300],
       [condition |-> "High Humidity", probability |-> weatherData.humidity.probability,
        threshold |-> Threshold(">", 70, "%"), trend |-> "increasing",
        confidence |-> 78, historical_mean |-> 652, trend_slope |-> 20,
        p_value |-> 60] >>

\* One row of the CSV (393-401): the Dataset column is chosen from the
\* condition's name alone.
csvRow(prob, metadata) ==
    [Variable |-> prob.condition,
     Threshold |-> prob.threshold,
     Probability |-> prob.probability,
     Units |-> IF prob.threshold.unit = "C" THEN "degC"
               ELSE IF prob.threshold.unit = "mm" THEN "mm/day"
               ELSE IF prob.threshold.unit = "m/s" THEN "m/s"
               ELSE "percent",
     YearsUsed |-> metadata.years_analyzed,
     Dataset |-> IF prob.condition \in {"Heavy Rain", "Precipitation"}
                 THEN "GPM IMERG" ELSE "MERRA-2",
     Recommendation |-> IF prob.probability < Pct(20) THEN "Low Risk"
                        ELSE IF prob.probability < Pct(40) THEN "Moderate Risk"
                        ELSE "High Risk"]

\* the file handleExportCSV builds (372-419)
csvOf(data) ==
    LET metadata == IF data # NoData THEN data.metadata ELSE defaultMetadata
        probabilities == IF data # NoData THEN data.probabilities
                         ELSE defaultProbabilities
    IN [rows |-> [i \in 1..Len(probabilities) |-> csvRow(probabilities[i], metadata)],
        alternatives |-> IF data # NoData THEN data.alternative_dates ELSE <<>>]

\* the object handleExportJSON serialises (421-467); a comfort_index of 0 is
\* falsy and gives way to the demo score.
jsonOf(location, date, data) ==
    [location |-> [latitude |-> location.lat, longitude |-> location.lng],
     event_date |-> IsoDay(date),
     comfort_index |-> IF data # NoData /\ data.comfort_index # 0
                       THEN data.comfort_index ELSE weatherData.comfortScore,
     probabilities |-> IF data # NoData THEN data.probabilities ELSE <<>>,
     alternative_dates |-> IF data # NoData THEN data.alternative_dates ELSE <<>>,
     metadata |-> IF data # NoData THEN data.metadata ELSE defaultMetadata,
     data_sources |-> {"MERRA-2", "GPM IMERG"}]

\* One Math.random() draw for each demo date of the render (771-776).
DashDraws == [1..Len(weatherData.alternativeDates) -> RandomDraws]

\* Math.floor(Math.random() * 30) + 70
FlooredDraw(base, span, r) == (span * r) \div 1000 + base

\* The list the "Alternative Dates" row maps over (771-776).
alternativeDatesShown(data, r) ==
    IF data # NoData
    THEN data.alternative_dates
    ELSE [i \in 1..Len(weatherData.alternativeDates) |->
             [date |-> weatherData.alternativeDates[i],
              comfort_index |-> FlooredDraw(70, 30, r[i]),
              offset_days |-> 0,
              recommendation |-> "Better"]]

\* What the Index page can hand to the dashboard for a location and a date:
\* a backend response or its own fallback; the prop itself is optional.
DashAnalyses(loc, date) ==
    {NoData}
      \cup BackendResponses(requestData(loc, date, InitialSelectorThresholds))
      \cup {fallbackAnalysis(loc, date, r) : r \in IndexDraws}

\* React renders the dashboard again.
DashboardRender(r) ==
    /\ mounted = "Dashboard"
    /\ shownAlternatives' = alternativeDatesShown(dashAnalysisData, r)
    /\ UNCHANGED <<dashLocation, dashDate, dashAnalysisData, exportedCsv, exportedJson>>
    /\ UNCHANGED notDashVars

HandleExportCSV ==
    /\ mounted = "Dashboard"
    /\ exportedCsv' = csvOf(dashAnalysisData)
    /\ UNCHANGED <<dashLocation, dashDate, dashAnalysisData, shownAlternatives,
                   exportedJson>>
    /\ UNCHANGED notDashVars

HandleExportJSON ==
    /\ mounted = "Dashboard"
    /\ exportedJson' = jsonOf(dashLocation, dashDate, dashAnalysisData)
    /\ UNCHANGED <<dashLocation, dashDate, dashAnalysisData, shownAlternatives,
                   exportedCsv>>
    /\ UNCHANGED notDashVars

\* the dashboard is not on screen
DashStart ==
    /\ dashLocation = NoLocation
    /\ dashDate = 4392
    /\ dashAnalysisData = NoData
    /\ shownAlternatives = <<>>
    /\ exportedCsv = NoData
    /\ exportedJson = NoData

(***************************************************************************)
(* The geocoder chain of GEOCODING_API.geocode for a place name            *)
(* (Map2D.tsx 71-160).  backendConfigured stands for API_BASE.             *)
(***************************************************************************)
\* The order the source states for the chain (comment of line 71).
statedOrder == <<"Open-Meteo", "Photon", "Mapbox", "Nominatim">>

\* How one fetch can end: a body with candidates, a body without, a status
\* that is not ok, or a rejected fetch.
GeoOutcomes == {"hits", "empty", "http_error", "network_error"}

\* The provider behind each awaited fetch.
providerOf(pending) ==
    CASE pending \in {"primary", "retry"} -> "Open-Meteo"
      [] pending = "photon" -> "Photon"
      [] pending = "mapbox" -> "Mapbox"
      [] pending \in {"nominatim", "nominatimPublic", "nominatimLast"} -> "Nominatim"

\* Fetches without a .catch(): their rejection reaches the outer catch.
uncaught(pending) ==
    \/ pending \in {"primary", "retry"} /\ backendConfigured
    \/ pending = "nominatim"

\* q.toLowerCase().split(/\s+/).filter(Boolean) (88)
tokensOf(q) ==
    CASE q.text = "Delhi" -> {"delhi"}
      [] q.text = "Springfield" -> {"springfield"}
      [] q.text = "Lima Peru" -> {"lima", "peru"}

\* hits / Math.max(1, tokens.length) in hundredths (89-90); a label is kept
\* as the set of its lower-case words, none of which contains another.
score(label, q) ==
    (Cardinality({t \in tokensOf(q) : t \in label}) * 100)
        \div MathMax(1, Cardinality(tokensOf(q)))

\* push (86-92)
push(candidates, lat, lon, label, q) ==
    Append(candidates, [lat |-> lat, lon |-> lon, label |-> label,
                        score |-> score(label, q)])

\* The places in a provider's body, in the order the provider lists them.
GeocodeBody ==
    <<[lat |-> 41, lon |-> -84, label |-> {"lima", "ohio"}],
      [lat |-> -12, lon |-> -77, label |-> {"lima", "peru"}],
      [lat |-> 28, lon |-> 77, label |-> {"delhi", "india"}]>>

\* data.forEach(r => push(...)) (93-109)
RECURSIVE pushAll(_, _, _)
pushAll(candidates, body, q) ==
    IF body = <<>> THEN candidates
    ELSE pushAll(push(candidates, Head(body).lat, Head(body).lon, Head(body).label, q),
                 Tail(body), q)

\* geocode returning the first candidate pushed.
bestUnsorted(candidates, q) ==
    IF candidates = <<>> THEN NoLocation
    ELSE [lat |-> candidates[1].lat, lng |-> candidates[1].lon,
          name |-> IF candidates[1].label # {} THEN candidates[1].label ELSE q.text]

\* candidates.sort((a,b) => b.score - a.score)[0] as {lat, lng, name}, or
\* null (155-158); the sort keeps candidates of equal score in their order.
bestOf(candidates, q) ==
    IF candidates = <<>> THEN NoLocation
    ELSE LET first == CHOOSE i \in DOMAIN candidates :
                          /\ \A j \in DOMAIN candidates :
                                 candidates[j].score <= candidates[i].score
                          /\ \A j \in 1..(i - 1) :
                                 candidates[j].score < candidates[i].score
             best == candidates[first]
         IN [lat |-> best.lat, lng |-> best.lon,
             name |-> IF best.label # {} THEN best.label ELSE q.text]

GeoFinish(candidates) ==
    /\ geoPending' = "done"
    /\ geoCandidates' = candidates
    /\ geoResult' = bestOf(candidates, geoQuery)

GeoAwait(pending, candidates) ==
    /\ geoPending' = pending
    /\ geoCandidates' = candidates
    /\ UNCHANGED geoResult

\* geocode(locationName) up to its first await (58-76): a "lat,lng" query
\* goes to reverseGeocode, a name to the first provider.
GeocodeStart(q) ==
    /\ mounted = "Geocode"
    /\ geoPending \in {"idle", "done"}
    /\ geoQuery' = q
    /\ geoTried' = <<>>
    /\ geoCandidates' = <<>>
    /\ geoResult' = NoData
    /\ geoPending' = IF coordMatch(q) # NoLocation THEN "reverseGeocode" ELSE "primary"
    /\ UNCHANGED notGeoVars

\* reverseGeocode resolved, with a name or with null (63-68)
GeocodeReversed ==
    /\ mounted = "Geocode"
    /\ geoPending = "reverseGeocode"
    /\ geoPending' = "done"
    /\ geoResult' = coordMatch(geoQuery)
    /\ UNCHANGED <<geoQuery, geoTried, geoCandidates>>
    /\ UNCHANGED notGeoVars

\* The awaited fetch settles and geocode runs on to its next await or to its
\* return (73-160).
GeocodeFetched(outcome) ==
    /\ mounted = "Geocode"
    /\ geoPending \notin {"idle", "done", "reverseGeocode"}
    /\ geoTried' = Append(geoTried, providerOf(geoPending))
    /\ LET ok == outcome \in {"hits", "empty"}
           candidates == IF outcome = "hits"
                         THEN pushAll(geoCandidates, GeocodeBody, geoQuery)
                         ELSE geoCandidates
           \* the candidate phase (101-154): the next provider to ask while
           \* there is no candidate
           afterParse ==
               IF candidates # <<>> THEN GeoFinish(candidates)
               ELSE IF backendConfigured THEN GeoAwait("mapbox", candidates)
               ELSE GeoAwait("nominatimPublic", candidates)
       IN IF outcome = "network_error" /\ uncaught(geoPending)
          THEN GeoFinish(<<>>)
          ELSE CASE geoPending = "primary" ->
                      IF ok THEN afterParse ELSE GeoAwait("photon", candidates)
                 [] geoPending = "photon" ->
                      IF ok THEN afterParse
                      ELSE IF backendConfigured THEN GeoAwait("nominatim", candidates)
                      ELSE GeoFinish(<<>>)
                 [] geoPending = "nominatim" ->
                      IF ok THEN afterParse ELSE GeoFinish(<<>>)
                 [] geoPending \in {"mapbox", "nominatimPublic"} ->
                      IF candidates # <<>> THEN GeoFinish(candidates)
                      ELSE GeoAwait("retry", candidates)
                 [] geoPending = "retry" ->
                      IF candidates # <<>> \/ ~backendConfigured
                      THEN GeoFinish(candidates)
                      ELSE GeoAwait("nominatimLast", candidates)
                 [] geoPending = "nominatimLast" -> GeoFinish(candidates)
    /\ UNCHANGED geoQuery
    /\ UNCHANGED notGeoVars

GeoQueries == {NameQuery("Delhi"), NameQuery("Springfield"), NameQuery("Lima Peru"),
               CoordQuery(28, " ,", 77)}

GeoStart ==
    /\ geoQuery = NoData
    /\ geoPending = "idle"
    /\ geoTried = <<>>
    /\ geoCandidates = <<>>
    /\ geoResult = NoData

(***************************************************************************)
(* The globe's local simulation as a function of its thresholds            *)
(* (Earth3DGlobe.tsx 930-964).                                             *)
(***************************************************************************)
\* the largest number of degrees, millimetres or m/s a threshold is moved
MaxShift == 2

ThresholdFields == {"hotTemp", "coldTemp", "precipitation", "windSpeed"}

\* The stricter cutoff of a variable: colder for "Very Cold", higher otherwise.
Stricter(thr, field) ==
    [thr EXCEPT ![field] = IF field = "coldTemp" THEN @ - 1 ELSE @ + 1]

Shift(thr, field) == MathAbs(thr[field] - DefaultThresholds[field])

\* Another location or date is evaluated under the same thresholds.
CalcEvaluate(loc, date) ==
    /\ mounted = "Calc"
    /\ <<loc, date>> # <<calcLocation, calcDate>>
    /\ calcLocation' = loc
    /\ calcDate' = date
    /\ calcProbabilities' = calculateWeatherProbabilitiesLocal(loc, date, calcThresholds)
    /\ UNCHANGED calcThresholds
    /\ UNCHANGED notCalcVars

\* One threshold is made stricter and the same location and date evaluated again.
CalcStricter(field) ==
    /\ mounted = "Calc"
    /\ Shift(calcThresholds, field) < MaxShift
    /\ calcThresholds' = Stricter(calcThresholds, field)
    /\ calcProbabilities' =
          calculateWeatherProbabilitiesLocal(calcLocation, calcDate, calcThresholds')
    /\ UNCHANGED <<calcLocation, calcDate>>
    /\ UNCHANGED notCalcVars

CalcStart ==
    /\ calcLocation = [lat |-> 28, lng |-> 77]
    /\ calcDate = 4416
    /\ calcThresholds = DefaultThresholds
    /\ calcProbabilities =
          calculateWeatherProbabilitiesLocal(calcLocation, calcDate, calcThresholds)

(***************************************************************************)
(* The analysis engine behind POST /analyze.  Its code (backend/main.py)   *)
(* is not among the sources; this part follows the specification,          *)
(* sections 3 to 5.                                                        *)
(***************************************************************************)
\* The requests the engine can hold at a time.
EngineRequests == {1, 2}

\* The variables a request asks for, in the order of the response.
EngineVariables == <<"temperature", "precipitation">>

VariableSet == {EngineVariables[i] : i \in DOMAIN EngineVariables}

\* Event dates: 2 January and 4 July (00:00Z).
EngineDates == {24, 4416}

\* The candidate offsets of section 4.5: a symmetric set without 0.
EngineOffsets == {-1, 1}

EngineCoordinate == [lat |-> 28, lng |-> 77]

\* The ordered adapters of each variable's SourceChain (README, data sources).
EngineAdapters(variable) ==
    IF variable = "precipitation" THEN <<"GPM IMERG">>
    ELSE <<"MERRA-2", "Open-Meteo">>

DaysPerYear == 365

\* window_days of section 4.2
WindowDays == 1

\* The fixed margin of section 4.5.
EngineMargin == 5

DayOfYear(t) == (IsoDay(t) % DaysPerYear) + 1

\* The day of year k days after day, wrapping at the year's end.
ShiftDay(day, k) == ((day - 1 + k + DaysPerYear) % DaysPerYear) + 1

\* Calendar distance of two days of year across the year boundary.
DayDistance(a, b) == MathMin(MathAbs(a - b), DaysPerYear - MathAbs(a - b))

\* HistoricalSample (section 3); value in degrees C or mm.
Sample(year, day, value) == [year |-> year, day |-> day, value |-> value]

LevelValue(variable, level) ==
    CASE variable = "temperature" /\ level = "mild" -> 25
      [] variable = "temperature" /\ level = "severe" -> 35
      [] variable = "precipitation" /\ level = "mild" -> 1
      [] OTHER -> 9

\* What a real provider can hold for a variable around a day: a mostly mild
\* record, a severe one, and one with no day near the event.
SeriesKinds == {"mixed", "severe", "distant"}

SeriesOf(variable, day, kind) ==
    CASE kind = "mixed" ->
           << Sample(2023, ShiftDay(day, -1), LevelValue(variable, "mild")),
              Sample(2023, day, LevelValue(variable, "mild")),
              Sample(2024, day, LevelValue(variable, "severe")),
              Sample(2024, ShiftDay(day, 1), LevelValue(variable, "mild")) >>
      [] kind = "severe" ->
           << Sample(2023, day, LevelValue(variable, "severe")),
              Sample(2024, day, LevelValue(variable, "severe")) >>
      [] OTHER ->
           << Sample(2023, ShiftDay(day, 3), LevelValue(variable, "mild")) >>

\* How one SourceAdapter call can end (4.1, 5).
AdapterOutcomes == {"samples", "empty", "error", "timeout"}

\* SyntheticGenerator (4.1): a series derived from a seed built from the
\* variable, the rounded coordinate and the day of year; warmer in June to
\* August.
SyntheticSeries(variable, coordinate, day) ==
    LET seed == (day * 31 + coordinate.lat
                 + (IF variable = "temperature" THEN 7 ELSE 13)) % 10
        base == IF variable # "temperature" THEN 2
                ELSE IF day >= 152 /\ day <= 243 THEN 28 ELSE 12
    IN << Sample(2023, day, base + seed),
          Sample(2024, day, base + ((seed * 3) % 10)) >>

\* WindowAggregator (4.2): the samples within window_days of the event's day
\* of year, across the year boundary.
WindowAggregate(samples, day) ==
    SelectSeq(samples, LAMBDA s : DayDistance(s.day, day) <= WindowDays)

ConditionOf(variable) ==
    IF variable = "temperature" THEN "Very Hot" ELSE "Heavy Rain"

CutoffOf(variable) ==
    IF variable = "temperature" THEN DefaultThresholds.hotTemp
    ELSE DefaultThresholds.precipitation

RECURSIVE SumOfValues(_)
SumOfValues(samples) ==
    IF samples = <<>> THEN 0
    ELSE Head(samples).value + SumOfValues(Tail(samples))

\* confidence (4.3), in hundredths: grows with the sample count up to the
\* provider's ceiling, the synthetic ceiling below the real one.
ConfidenceOf(count, synthetic) ==
    MathMin(IF synthetic THEN 60 ELSE 90, 25 * count)

\* VariableAnalyzer (4.3) for a non-empty sample list: probability in
\* thousandths of a percent, rounded to one decimal; mean in tenths.
VariableAnalyze(variable, samples, synthetic) ==
    LET exceeding == SelectSeq(samples, LAMBDA s : s.value > CutoffOf(variable))
    IN [condition |-> ConditionOf(variable),
        probability |-> 100 * MathRound(1000 * Len(exceeding), Len(samples)),
        historical_mean |-> MathRound(10 * SumOfValues(samples), Len(samples)),
        confidence |-> ConfidenceOf(Len(samples), synthetic)]

\* What 4.2 and 4.3 make of one variable's raw samples: its statistics, or
\* NoData for InsufficientData.
StatisticsOf(variable, raw, day, synthetic) ==
    IF WindowAggregate(raw, day) = <<>> THEN NoData
    ELSE VariableAnalyze(variable, WindowAggregate(raw, day), synthetic)

RECURSIVE PresentWeight(_)
PresentWeight(stats) ==
    IF stats = <<>> THEN 0
    ELSE ComfortWeight(Head(stats).condition) + PresentWeight(Tail(stats))

\* ComfortScorer (4.4): round(100 * (1 - sum of weight_i * probability_i / 100))
\* with the table's weights re-normalised over the entries present.
ComfortScore(stats) ==
    IF stats = <<>> THEN 100
    ELSE MathMax(0, MathMin(100,
             MathRound(100000 * PresentWeight(stats) - Discomfort(stats),
                       1000 * PresentWeight(stats))))

\* The label the stated rule gives a candidate's comfort index against the
\* baseline's, for a margin.
Classify(baseline, comfort, margin) ==
    IF comfort > baseline + margin THEN "Better"
    ELSE IF comfort < baseline - margin THEN "Risky"
    ELSE "Monitor"

\* Entry a may stand before entry b in a list sorted by descending comfort
\* index, ties by smaller absolute offset.
RanksBefore(a, b) ==
    \/ a.comfort_index > b.comfort_index
    \/ /\ a.comfort_index = b.comfort_index
       /\ MathAbs(a.offset_days) <= MathAbs(b.offset_days)

\* Every arrangement of a set in a list.
Orderings(S) ==
    {seq \in [1..Cardinality(S) -> S] :
        \A i, j \in 1..Cardinality(S) : i # j => seq[i] # seq[j]}

\* Rankings without the sort: the entries in the order they completed.
CompletionOrders(entries) == Orderings(entries)

\* The lists the final sort of 4.5 can return for a set of entries.
Rankings(entries) ==
    {seq \in Orderings(entries) :
        \A i, j \in DOMAIN seq : i < j => RanksBefore(seq[i], seq[j])}

\* A request slot nobody uses, and the fresh state of a variable's pipeline
\* and of a candidate date's pipeline.
NewVariable ==
    [stage |-> "chain", adapter |-> 1, retried |-> FALSE, calls |-> 0,
     source |-> "none", raw |-> <<>>, samples |-> <<>>, stats |-> NoData]

NewCandidate == [stage |-> "pending", source |-> "none", raw |-> NoData, comfort |-> -1]

EngineIdle ==
    [phase |-> "idle", date |-> 0, chain |-> [v \in VariableSet |-> NewVariable],
     comfort |-> -1, candidates |-> [o \in EngineOffsets |-> NewCandidate],
     response |-> NoData]

\* The statistics of the variables that were not omitted, in response order.
PresentStats(req) ==
    LET done == SelectSeq(EngineVariables, LAMBDA v : req.chain[v].stage = "done")
    IN [i \in 1..Len(done) |-> req.chain[done[i]].stats]

RECURSIVE Distinct(_)
Distinct(seq) ==
    IF seq = <<>> THEN <<>>
    ELSE <<Head(seq)>> \o SelectSeq(Distinct(Tail(seq)), LAMBDA x : x # Head(seq))

\* metadata.datasets_used (4.6): the provenance SourceChain recorded.
DatasetsUsed(req) ==
    LET done == SelectSeq(EngineVariables, LAMBDA v : req.chain[v].stage = "done")
    IN Distinct([i \in 1..Len(done) |-> req.chain[done[i]].source])

\* What the sources hold for a candidate date: one of the real records for
\* every variable, or ("synthetic") nothing real, so that every chain ends in
\* the generator.
CandidateRaw(day, source) ==
    [v \in VariableSet |->
        IF source = "synthetic" THEN SyntheticSeries(v, EngineCoordinate, day)
        ELSE SeriesOf(v, day, source)]

\* 4.2 and 4.3 over a candidate date's raw samples.
CandidateStats(raw, day, synthetic) ==
    LET present == SelectSeq(EngineVariables,
                       LAMBDA v : StatisticsOf(v, raw[v], day, synthetic) # NoData)
    IN [i \in 1..Len(present) |->
           StatisticsOf(present[i], raw[present[i]], day, synthetic)]

\* AlternativeDateEntry (3) of one offset, classified against the baseline.
EntryOf(req, o) ==
    [date |-> req.date + HoursPerDay * o,
     comfort_index |-> req.candidates[o].comfort,
     offset_days |-> o,
     recommendation |-> Classify(req.comfort, req.candidates[o].comfort, EngineMargin)]

\* AnalysisResult (3) as the orchestrator assembles it (4.6).
ResultOf(req, ranking) ==
    [kind |-> "analysis", event_date |-> req.date, comfort_index |-> req.comfort,
     probabilities |-> PresentStats(req), alternative_dates |-> ranking,
     metadata |-> [datasets_used |-> DatasetsUsed(req)]]

\* EngineSubmit keeping the request in one object all running requests use.
EngineSubmitShared(r, date) ==
    /\ mounted = "Engine"
    /\ engine[r].phase = "idle"
    /\ engine' = [q \in EngineRequests |->
                     IF q = r THEN [EngineIdle EXCEPT !.phase = "running",
                                                      !.date = date]
                     ELSE IF engine[q].phase = "running"
                     THEN [engine[q] EXCEPT !.date = date]
                     ELSE engine[q]]
    /\ UNCHANGED <<mounted, backendConfigured>>
    /\ UNCHANGED notEngVars

\* A request arrives; everything it uses is created fresh (3, lifecycle).
EngineSubmit(r, date) ==
    /\ mounted = "Engine"
    /\ engine[r].phase = "idle"
    /\ engine' = [engine EXCEPT ![r] = [EngineIdle EXCEPT !.phase = "running",
                                                          !.date = date]]
    /\ UNCHANGED <<mounted, backendConfigured>>
    /\ UNCHANGED notEngVars

\* EngineAdapterReturns retrying a failed adapter however often it failed.
EngineAdapterRetrying(r, v, outcome, kind, retry) ==
    LET c == engine[r].chain[v] IN
    /\ mounted = "Engine"
    /\ engine[r].phase = "running"
    /\ c.stage = "chain"
    /\ c.adapter <= Len(EngineAdapters(v))
    /\ engine' = [engine EXCEPT ![r].chain[v] =
          IF outcome = "samples"
          THEN [c EXCEPT !.calls = c.calls + 1, !.stage = "aggregate",
                         !.source = EngineAdapters(v)[c.adapter],
                         !.raw = SeriesOf(v, DayOfYear(engine[r].date), kind)]
          ELSE IF outcome \in {"error", "timeout"} /\ retry
          THEN [c EXCEPT !.calls = c.calls + 1, !.retried = TRUE]
          ELSE [c EXCEPT !.calls = c.calls + 1, !.adapter = c.adapter + 1,
                         !.retried = FALSE]]
    /\ UNCHANGED <<mounted, backendConfigured>>
    /\ UNCHANGED notEngVars

\* 4.1: the call of the current adapter of a variable's chain ends.  The
\* first non-empty sample set is accepted; an error or a timeout is
\* SourceUnavailable, after which the adapter is tried once more at most and
\* the chain moves on.
EngineAdapterReturns(r, v, outcome, kind, retry) ==
    LET c == engine[r].chain[v] IN
    /\ mounted = "Engine"
    /\ engine[r].phase = "running"
    /\ c.stage = "chain"
    /\ c.adapter <= Len(EngineAdapters(v))
    /\ engine' = [engine EXCEPT ![r].chain[v] =
          IF outcome = "samples"
          THEN [c EXCEPT !.calls = c.calls + 1, !.stage = "aggregate",
                         !.source = EngineAdapters(v)[c.adapter],
                         !.raw = SeriesOf(v, DayOfYear(engine[r].date), kind)]
          ELSE IF outcome \in {"error", "timeout"} /\ retry /\ ~c.retried
          THEN [c EXCEPT !.calls = c.calls + 1, !.retried = TRUE]
          ELSE [c EXCEPT !.calls = c.calls + 1, !.adapter = c.adapter + 1,
                         !.retried = FALSE]]
    /\ UNCHANGED <<mounted, backendConfigured>>
    /\ UNCHANGED notEngVars

\* 4.1: every real adapter failed; the SyntheticGenerator supplies the series.
EngineSynthetic(r, v) ==
    LET c == engine[r].chain[v] IN
    /\ mounted = "Engine"
    /\ engine[r].phase = "running"
    /\ c.stage = "chain"
    /\ c.adapter > Len(EngineAdapters(v))
    /\ engine' = [engine EXCEPT ![r].chain[v] =
          [c EXCEPT !.stage = "aggregate", !.source = "Synthetic",
                    !.raw = SyntheticSeries(v, EngineCoordinate,
                                            DayOfYear(engine[r].date))]]
    /\ UNCHANGED <<mounted, backendConfigured>>
    /\ UNCHANGED notEngVars

\* 4.2 for one variable.
EngineAggregate(r, v) ==
    LET c == engine[r].chain[v] IN
    /\ mounted = "Engine"
    /\ engine[r].phase = "running"
    /\ c.stage = "aggregate"
    /\ engine' = [engine EXCEPT ![r].chain[v] =
          [c EXCEPT !.stage = "analyze",
                    !.samples = WindowAggregate(c.raw, DayOfYear(engine[r].date))]]
    /\ UNCHANGED <<mounted, backendConfigured>>
    /\ UNCHANGED notEngVars

\* EngineAnalyze with InsufficientData propagated to the request.
EngineAnalyzeFailing(r, v) ==
    LET c == engine[r].chain[v] IN
    /\ mounted = "Engine"
    /\ engine[r].phase = "running"
    /\ c.stage = "analyze"
    /\ engine' = [engine EXCEPT ![r] =
          IF c.samples = <<>>
          THEN [engine[r] EXCEPT !.phase = "failed"]
          ELSE [engine[r] EXCEPT !.chain[v] =
                   [c EXCEPT !.stage = "done",
                             !.stats = VariableAnalyze(v, c.samples,
                                                       c.source = "Synthetic")]]]
    /\ UNCHANGED <<mounted, backendConfigured>>
    /\ UNCHANGED notEngVars

\* 4.3 for one variable: its statistics, or InsufficientData for an empty
\* sample list, which the orchestrator turns into the variable's omission.
EngineAnalyze(r, v) ==
    LET c == engine[r].chain[v] IN
    /\ mounted = "Engine"
    /\ engine[r].phase = "running"
    /\ c.stage = "analyze"
    /\ engine' = [engine EXCEPT ![r].chain[v] =
          IF c.samples = <<>>
          THEN [c EXCEPT !.stage = "omitted"]
          ELSE [c EXCEPT !.stage = "done",
                         !.stats = VariableAnalyze(v, c.samples,
                                                   c.source = "Synthetic")]]
    /\ UNCHANGED <<mounted, backendConfigured>>
    /\ UNCHANGED notEngVars

\* EngineScore not waiting for the variables still in their pipelines.
EngineScoreEarly(r) ==
    /\ mounted = "Engine"
    /\ engine[r].phase = "running"
    /\ engine[r].comfort = -1
    /\ \E v \in VariableSet : engine[r].chain[v].stage \in {"done", "omitted"}
    /\ engine' = [engine EXCEPT ![r].comfort = ComfortScore(PresentStats(engine[r]))]
    /\ UNCHANGED <<mounted, backendConfigured>>
    /\ UNCHANGED notEngVars

\* 4.4, once every requested variable is through 4.3.
EngineScore(r) ==
    /\ mounted = "Engine"
    /\ engine[r].phase = "running"
    /\ engine[r].comfort = -1
    /\ \A v \in VariableSet : engine[r].chain[v].stage \in {"done", "omitted"}
    /\ engine' = [engine EXCEPT ![r].comfort = ComfortScore(PresentStats(engine[r]))]
    /\ UNCHANGED <<mounted, backendConfigured>>
    /\ UNCHANGED notEngVars

\* 4.5, one offset: the fetch-and-aggregate of the candidate date ends.
EngineCandidateAggregated(r, o, source) ==
    LET k == engine[r].candidates[o] IN
    /\ mounted = "Engine"
    /\ engine[r].phase = "running"
    /\ engine[r].comfort # -1
    /\ k.stage = "pending"
    /\ engine' = [engine EXCEPT ![r].candidates[o] =
          [k EXCEPT !.stage = "aggregated", !.source = source,
                    !.raw = CandidateRaw(
                               ShiftDay(DayOfYear(engine[r].date), o), source)]]
    /\ UNCHANGED <<mounted, backendConfigured>>
    /\ UNCHANGED notEngVars

\* 4.5, one offset: 4.3 and 4.4 over the candidate date's samples.
EngineCandidateScored(r, o) ==
    LET k == engine[r].candidates[o] IN
    /\ mounted = "Engine"
    /\ engine[r].phase = "running"
    /\ k.stage = "aggregated"
    /\ engine' = [engine EXCEPT ![r].candidates[o] =
          [k EXCEPT !.stage = "done",
                    !.comfort = ComfortScore(CandidateStats(k.raw,
                                    ShiftDay(DayOfYear(engine[r].date), o),
                                    k.source = "synthetic"))]]
    /\ UNCHANGED <<mounted, backendConfigured>>
    /\ UNCHANGED notEngVars

\* 4.5 and 4.6: every candidate is scored; the entries are classified, sorted
\* and returned in the assembled result.
EngineRank(r) ==
    /\ mounted = "Engine"
    /\ engine[r].phase = "running"
    /\ engine[r].comfort # -1
    /\ \A o \in EngineOffsets : engine[r].candidates[o].stage = "done"
    /\ \E ranking \in Rankings({EntryOf(engine[r], o) : o \in EngineOffsets}) :
          engine' = [engine EXCEPT ![r].phase = "responded",
                                   ![r].response = ResultOf(engine[r], ranking)]
    /\ UNCHANGED <<mounted, backendConfigured>>
    /\ UNCHANGED notEngVars

\* The response is out and the request's entities are discarded.
EngineDiscard(r) ==
    /\ mounted = "Engine"
    /\ engine[r].phase = "responded"
    /\ engine' = [engine EXCEPT ![r] = EngineIdle]
    /\ UNCHANGED <<mounted, backendConfigured>>
    /\ UNCHANGED notEngVars

EngineStart == engine = [r \in EngineRequests |-> EngineIdle]

(***************************************************************************)
(* useAutoWeather (DataSourceIndicator.tsx 1064-1124).                     *)
(***************************************************************************)
\* What getCurrentWeather can resolve with (precipitation and wind in
\* tenths), or null when every provider failed (its catch, 1028-1031).
WeatherReadings ==
    {[weather_main |-> "Clear", precipitation |-> 0, wind_speed |-> 30, temperature |-> 25],
     [weather_main |-> "Clear", precipitation |-> 20, wind_speed |-> 30, temperature |-> 15],
     [weather_main |-> "Clouds", precipitation |-> 60, wind_speed |-> 200, temperature |-> 20],
     [weather_main |-> "Snow", precipitation |-> 5, wind_speed |-> 30, temperature |-> -3],
     [weather_main |-> "Fog", precipitation |-> 0, wind_speed |-> 10, temperature |-> 8],
     NoData}

\* determineWeatherType (1037-1062)
determineWeatherType(d) ==
    IF d.weather_main = "Thunderstorm" \/ (d.precipitation > 50 /\ d.wind_speed > 150)
    THEN "stormy"
    ELSE IF d.weather_main = "Snow" \/ (d.temperature < 2 /\ d.precipitation > 0)
    THEN "snowy"
    ELSE IF d.weather_main = "Rain" \/ d.precipitation > 10 THEN "rainy"
    ELSE IF d.weather_main = "Clouds" \/ d.weather_main = "Fog" THEN "cloudy"
    ELSE "clear"

\* Locations the Index page passes to the hook.
AutoLocations == IndexLocations

\* fetchWeather up to its await (1076-1081), for the location its effect
\* closed over.
FetchWeatherStart(loc) ==
    /\ autoIssued < MaxRuns
    /\ autoLoading' = TRUE
    /\ autoError' = "null"
    /\ autoIssued' = autoIssued + 1
    /\ autoInFlight' = autoInFlight \cup {[id |-> autoIssued + 1, loc |-> loc]}

\* The location argument changes: the previous effect's cleanup clears its
\* interval, then the effect starts fetchWeather and sets a new interval
\* (1070-1116).
AutoSetLocation(loc) ==
    /\ mounted = "Weather"
    /\ loc # autoLocation
    /\ autoLocation' = loc
    /\ FetchWeatherStart(loc)
    /\ autoInterval' = loc
    /\ UNCHANGED <<weatherType, lastUpdate, mounted, backendConfigured>>
    /\ UNCHANGED notAutoVars

\* The 10-minute interval fires and calls fetchWeather again (1112).
AutoIntervalFires ==
    /\ mounted = "Weather"
    /\ autoInterval # NoLocation
    /\ FetchWeatherStart(autoInterval)
    /\ UNCHANGED <<autoLocation, autoInterval, weatherType, lastUpdate, mounted,
                   backendConfigured>>
    /\ UNCHANGED notAutoVars

\* getCurrentWeather settles and fetchWeather runs on (1083-1106).  The time
\* of setLastUpdate(new Date()) is kept as the number of the fetch.
AutoSettled(call, data) ==
    /\ mounted = "Weather"
    /\ call \in autoInFlight
    /\ autoInFlight' = autoInFlight \ {call}
    /\ IF data # NoData
       THEN /\ weatherType' = determineWeatherType(data)
            /\ lastUpdate' = call.id
            /\ UNCHANGED autoError
       ELSE /\ weatherType' = "clear"
            /\ autoError' = "Failed to fetch weather data"
            /\ UNCHANGED lastUpdate
    /\ autoLoading' = FALSE
    /\ UNCHANGED <<autoLocation, autoInterval, autoIssued, mounted, backendConfigured>>
    /\ UNCHANGED notAutoVars

\* The hook's state after its first effect, run without a location.
AutoStart ==
    /\ autoLocation = NoLocation
    /\ weatherType = "clear"
    /\ autoLoading = FALSE
    /\ autoError = "null"
    /\ lastUpdate = 0
    /\ autoInFlight = {}
    /\ autoIssued = 0
    /\ autoInterval = NoLocation

(***************************************************************************)
(* 2D map: area selection and the request body (Map2D.tsx 407-439,        *)
(* 750-761, 782-836, 898).  The analysis is reduced to who answered it.    *)
(***************************************************************************)
\* Where toLatLng puts a click, in hundredths of a degree.
AreaPoints == {[lat |-> 2800, lng |-> 7700], [lat |-> 2801, lng |-> 7700]}

\* hav (801-808) rounded as Math.round(radiusKm * 10) / 10, in tenths of a
\* kilometre: 0.01 degrees of latitude are 1.1 km.
hav(a, b) == IF a = b THEN 0 ELSE 11

AreaSegments == 12

\* The circle as a polygon of 12 points (811-825): one vertex per bearing.
circlePolygon(p1, radiusKm) ==
    [i \in 1..AreaSegments |-> [centre |-> p1, bearing |-> i - 1, radius |-> radiusKm]]

\* The polygon argument analyzeWeatherRisk can be given: none (the effects of
\* 463-482), or an array of vertices.
AreaPolygons ==
    {NoData,
     <<[lat |-> 2800, lng |-> 7700], [lat |-> 2801, lng |-> 7700]>>,
     <<[lat |-> 2800, lng |-> 7700], [lat |-> 2801, lng |-> 7700],
       [lat |-> 2801, lng |-> 7701]>>}

\* The polygon field of the posted body (437); undefined is left out by
\* JSON.stringify.
requestPolygon(polygon) ==
    IF polygon # NoData /\ Len(polygon) >= 3 THEN polygon ELSE NoData

\* area_radius_km: radiusKm || areaRadiusKm || 0 (436)
requestRadius(radiusKm, stateRadiusKm) ==
    IF radiusKm # 0 THEN radiusKm ELSE stateRadiusKm

\* analyzeWeatherRisk(lat, lng, date, radiusKm, polygon) up to its await
\* (419-439); without a backend the catch shows the fallback at once.
AreaAnalyze(p, radiusKm, polygon) ==
    IF ~backendConfigured
    THEN /\ areaShown' = [origin |-> "fallback", supplied |-> polygon]
         /\ UNCHANGED areaCall
    ELSE /\ areaCall' = [supplied |-> polygon,
                         body |-> [latitude |-> p.lat, longitude |-> p.lng,
                                   area_radius_km |->
                                       requestRadius(radiusKm, areaRadiusKm),
                                   polygon |-> requestPolygon(polygon)]]
         /\ UNCHANGED areaShown

\* "Draw Area" / "Finish Drawing" on the normal map (750-761)
AreaToggleDraw ==
    /\ mounted = "Area"
    /\ polygonPoints' = << >>
    /\ UNCHANGED <<areaRadiusKm, polygonLatLng, areaCall, areaShown, mounted,
                   backendConfigured>>
    /\ UNCHANGED notAreaVars

\* A click on the draw overlay (894-899)
AreaClick(p) ==
    /\ mounted = "Area"
    /\ polygonPoints' = IF Len(polygonPoints) >= 2 THEN <<p>>
                        ELSE Append(polygonPoints, p)
    /\ UNCHANGED <<areaRadiusKm, polygonLatLng, areaCall, areaShown, mounted,
                   backendConfigured>>
    /\ UNCHANGED notAreaVars

\* "Analyze Area" (782-836), shown once two points are set.
AnalyzeArea ==
    /\ mounted = "Area"
    /\ Len(polygonPoints) >= 2
    /\ areaCall = NoData
    /\ LET p1 == polygonPoints[1]
           radiusKm == hav(polygonPoints[1], polygonPoints[2])
           poly == circlePolygon(p1, radiusKm)
       IN /\ areaRadiusKm' = MathMax(0, radiusKm)
          /\ polygonLatLng' = poly
          /\ AreaAnalyze(p1, MathMax(0, radiusKm), poly)
    /\ UNCHANGED <<polygonPoints, mounted, backendConfigured>>
    /\ UNCHANGED notAreaVars

\* analyzeWeatherRisk called with a polygon argument of any length.
AnalyzeWeatherRiskCalled(p, polygon) ==
    /\ mounted = "Area"
    /\ areaCall = NoData
    /\ AreaAnalyze(p, 0, polygon)
    /\ UNCHANGED <<polygonPoints, areaRadiusKm, polygonLatLng, mounted,
                   backendConfigured>>
    /\ UNCHANGED notAreaVars

\* The fetch settles (440-459): the body's answer or the fallback is shown.
AreaSettled(outcome) ==
    /\ mounted = "Area"
    /\ areaCall # NoData
    /\ areaShown' = [origin |-> IF outcome = "ok" THEN "backend" ELSE "fallback",
                     supplied |-> areaCall.supplied]
    /\ areaCall' = NoData
    /\ UNCHANGED <<polygonPoints, areaRadiusKm, polygonLatLng, mounted,
                   backendConfigured>>
    /\ UNCHANGED notAreaVars

AreaStart ==
    /\ polygonPoints = << >>
    /\ areaRadiusKm = 0
    /\ polygonLatLng = << >>
    /\ areaCall = NoData
    /\ areaShown = NoData

(***************************************************************************)
(* WindowAggregator over calendar days (specification, section 4.2).       *)
(***************************************************************************)
\* The analysis range.
WindowYears == {2024, 2025}

\* The calendar day k days after day `day` of year `year`, carrying into the
\* neighbouring year at Dec 31 / Jan 1.
CalendarDay(year, day, k) ==
    IF day + k < 1 THEN [year |-> year - 1, day |-> day + k + DaysPerYear]
    ELSE IF day + k > DaysPerYear
    THEN [year |-> year + 1, day |-> day + k - DaysPerYear]
    ELSE [year |-> year, day |-> day + k]

\* The same collection without the carry: the days of the nominal year only.
aggregateWithinYear(record, day, window_days, years) ==
    UNION {{[group |-> y, sample |-> s] :
               s \in {t \in record : t.year = y /\ MathAbs(t.day - day) <= window_days}} :
           y \in years}

\* aggregate(variable, coordinate, event_date, window_days, years): for each
\* year of the range the record's samples on the calendar days within
\* window_days of the event's day, kept under that year.
aggregate(record, day, window_days, years) ==
    UNION {{[group |-> y, sample |-> s] :
               s \in {t \in record :
                        \E k \in (0 - window_days)..window_days :
                            [year |-> t.year, day |-> t.day] = CalendarDay(y, day, k)}} :
           y \in years}

\* A provider's daily record around two year boundaries and at mid-year.
RecordDays ==
    {Sample(2023, 364, 11), Sample(2023, 365, 12), Sample(2024, 1, 13),
     Sample(2024, 2, 14), Sample(2024, 182, 30), Sample(2024, 365, 15),
     Sample(2025, 1, 16), Sample(2025, 3, 17)}

WindowEventDays == {1, 2, 182, 365}

WindowSizes == {1, 2}

\* Before aggregate has returned.
NoSamples == [returned |-> FALSE, samples |-> {}]

WindowAggregated ==
    /\ mounted = "Window"
    /\ ~windowSamples.returned
    /\ windowSamples' =
          [returned |-> TRUE,
           samples |-> aggregate(windowCall.record, windowCall.day,
                                 windowCall.window_days, WindowYears)]
    /\ UNCHANGED <<windowCall, mounted, backendConfigured>>
    /\ UNCHANGED notWinVars

\* The entities of a request are discarded after the response (section 3).
WindowDiscarded ==
    /\ mounted = "Window"
    /\ windowSamples.returned
    /\ windowSamples' = NoSamples
    /\ windowCall' \in [day : WindowEventDays, window_days : WindowSizes,
                        record : {windowCall.record}]
    /\ UNCHANGED <<mounted, backendConfigured>>
    /\ UNCHANGED notWinVars

WindowStart ==
    /\ windowCall = NoData
    /\ windowSamples = NoSamples

(***************************************************************************)
(* Index page: hero and app view (DataSourceIndicator.tsx 223, 430-449).   *)
(***************************************************************************)
Views == {"hero", "app"}

\* Variant of the view switch that drops the analysis, as a remount of the
\* page would.
SetViewDroppingData(v) ==
    /\ mounted = "Index"
    /\ v # view
    /\ view' = v
    /\ analysisData' = NoData
    /\ UNCHANGED <<selectedLocation, selectedDate, selectorThresholds, thresholds,
                   showResults, isAnalyzing, toast, idxRequest, idxOrigin>>
    /\ UNCHANGED <<mounted, backendConfigured>>
    /\ UNCHANGED notViewVars

\* "Get Started" of the hero section (431) and the back button of the app
\* view (449): the page stays mounted and keeps its state.
SetView(v) ==
    /\ mounted = "Index"
    /\ v # view
    /\ view' = v
    /\ UNCHANGED idxVars
    /\ UNCHANGED <<mounted, backendConfigured>>
    /\ UNCHANGED notViewVars

ViewStart == view = "hero"

(***************************************************************************)
(* CurrentWeatherWidget and WEATHER_API (part_004 32-369).                 *)
(***************************************************************************)
\* How the Meteomatics request of getCurrentWeather can end (36-176): not
\* made after the cutoff date, a body, status 400, or another failure.
MeteomaticsOutcomes == {"after_cutoff", "ok", "status_400", "error"}

\* How the Open-Meteo request can end (181-187): a body, or a status that is
\* not ok or a rejected fetch, both of which reach the catch of 258.
OpenMeteoOutcomes == {"ok", "error"}

\* The record both providers' branches return (148-164, 234-257).
realWeather(weather_main) ==
    [data_source |-> "real", location_name |-> "Current Location",
     weather_main |-> weather_main]

\* WEATHER_API.getCurrentWeather (34-262): the Meteomatics record if that
\* request gave one, else the Open-Meteo record, else null from the catch.
getCurrentWeather(meteomatics, openMeteo) ==
    IF meteomatics = "ok" THEN realWeather("Clouds")
    ELSE IF openMeteo = "ok" THEN realWeather("Rain")
    ELSE NoData

\* WEATHER_API.getSimulatedWeather (265-328); weather_main is the condition
\* its Math.random() draws picked.
getSimulatedWeather(weather_main) ==
    [data_source |-> "simulated", location_name |-> "Simulated Location",
     weather_main |-> weather_main]

SimulatedConditions == {"Clear", "Rain"}

\* if (locationName) data.location_name = locationName (349-351, 359)
withLocationName(data, locationName) ==
    IF locationName # "" THEN [data EXCEPT !.location_name = locationName] ELSE data

\* The props the Index page can give the widget.
WidgetPropsSet ==
    {[latitude |-> loc.lat, longitude |-> loc.lng, locationName |-> name] :
        loc \in IndexLocations, name \in {"", "Delhi"}}

\* The effect of 336-369 runs on mount and whenever a prop changes, and
\* fetchWeather runs up to its await (338-343).
WidgetEffect(props) ==
    /\ mounted = "Widget"
    /\ props # widgetProps
    /\ widgetIssued < MaxRuns
    /\ widgetProps' = props
    /\ loading' = TRUE
    /\ error' = "null"
    /\ widgetIssued' = widgetIssued + 1
    /\ widgetInFlight' = widgetInFlight \cup {[id |-> widgetIssued + 1, props |-> props]}
    /\ UNCHANGED <<widgetWeatherData, lastFetch>>
    /\ UNCHANGED notWidgetVars

\* fetchWeather with the catch block storing nothing.
fetchWeatherWithoutFallback(call, returned, threw, simulated) ==
    /\ widgetWeatherData' =
           IF threw THEN widgetWeatherData
           ELSE withLocationName(IF returned # NoData THEN returned
                                 ELSE getSimulatedWeather(simulated),
                                 call.props.locationName)
    /\ error' = IF threw THEN "Failed to fetch weather data" ELSE error
    /\ loading' = FALSE

\* What the try, catch and finally blocks of fetchWeather store (341-365)
\* once getCurrentWeather resolved with returned; threw says that a statement
\* of the try block raised an exception after that.
fetchWeatherStores(call, returned, threw, simulated) ==
    /\ widgetWeatherData' =
           withLocationName(IF returned # NoData /\ ~threw THEN returned
                            ELSE getSimulatedWeather(simulated),
                            call.props.locationName)
    /\ error' = IF threw THEN "Failed to fetch weather data" ELSE error
    /\ loading' = FALSE

\* getCurrentWeather settles and fetchWeather runs to its end (343-365).
WidgetSettled(call, meteomatics, openMeteo, threw, simulated) ==
    /\ mounted = "Widget"
    /\ call \in widgetInFlight
    /\ widgetInFlight' = widgetInFlight \ {call}
    /\ LET returned == getCurrentWeather(meteomatics, openMeteo)
       IN /\ fetchWeatherStores(call, returned, threw, simulated)
          /\ lastFetch' = [id |-> call.id, returned |-> returned, threw |-> threw]
    /\ UNCHANGED <<widgetProps, widgetIssued>>
    /\ UNCHANGED notWidgetVars

\* The widget's state at its first render (332-334).
WidgetStart ==
    /\ widgetProps = NoData
    /\ widgetWeatherData = NoData
    /\ loading = TRUE
    /\ error = "null"
    /\ widgetInFlight = {}
    /\ widgetIssued = 0
    /\ lastFetch = NoData

(***************************************************************************)
(* Earth, the globe mesh: pointer handlers (Earth3DGlobe.tsx 512-572).     *)
(***************************************************************************)
\* Pixels beyond which a pointer-move counts as a drag (523).
DragPixels == 5

\* clientX, clientY of the pointer events.
PointerPositions == {[x |-> x, y |-> y] : x \in {0, 5, 6}, y \in {0, 5, 6}}

\* deltaX > 5 || deltaY > 5 (519-523)
movedBeyond(p, start) ==
    MathAbs(p.x - start.x) > DragPixels \/ MathAbs(p.y - start.y) > DragPixels

\* handlePointerDown (512-515)
HandlePointerDown(p) ==
    /\ mounted = "Pointer"
    /\ dragStartRef' = p
    /\ isDragging' = FALSE
    /\ pointerDownAt' = p
    /\ pointerPressed' = TRUE
    /\ movedFar' = FALSE
    /\ UNCHANGED lastClick
    /\ UNCHANGED notPtrVars

\* handlePointerMove (517-531); the hover point is left out.
HandlePointerMove(p) ==
    /\ mounted = "Pointer"
    /\ isDragging' =
           IF dragStartRef # NoData /\ movedBeyond(p, dragStartRef) THEN TRUE
           ELSE isDragging
    /\ movedFar' = (movedFar \/ (pointerDownAt # NoData /\ movedBeyond(p, pointerDownAt)))
    /\ UNCHANGED <<dragStartRef, pointerDownAt, pointerPressed, lastClick>>
    /\ UNCHANGED notPtrVars

\* handleClick with the early return leaving the flag as it is.
handleClickKeepingFlag(n) ==
    /\ IF isDragging
       THEN /\ UNCHANGED isDragging
            /\ lastClick' = [n |-> n, selected |-> FALSE]
       ELSE /\ UNCHANGED isDragging
            /\ lastClick' = [n |-> n, selected |-> TRUE]
    /\ dragStartRef' = NoData

\* handleClick (538-572): a click while dragging only ends the drag; any other
\* click looks the point's name up and calls onClick with it.
handleClick(n) ==
    /\ IF isDragging
       THEN /\ isDragging' = FALSE
            /\ lastClick' = [n |-> n, selected |-> FALSE]
       ELSE /\ UNCHANGED isDragging
            /\ lastClick' = [n |-> n, selected |-> TRUE]
    /\ dragStartRef' = NoData

\* The click that follows a pointer-down on the mesh.
HandleClick ==
    /\ mounted = "Pointer"
    /\ pointerPressed
    /\ handleClick(IF lastClick = NoData THEN 0 ELSE 1 - lastClick.n)
    /\ pointerPressed' = FALSE
    /\ UNCHANGED <<pointerDownAt, movedFar>>
    /\ UNCHANGED notPtrVars

\* The mesh before any pointer event (dragStartRef and isDragging of Earth).
PointerStart ==
    /\ dragStartRef = NoData
    /\ isDragging = FALSE
    /\ pointerDownAt = NoData
    /\ pointerPressed = FALSE
    /\ movedFar = FALSE
    /\ lastClick = NoData

OtherStart(component) ==
    /\ component = "Index" \/ IndexStart
    /\ component = "Globe" \/ GlobeStart
    /\ component = "Map2D" \/ MapStart
    /\ component = "Dashboard" \/ DashStart
    /\ component = "Geocode" \/ GeoStart
    /\ component = "Calc" \/ CalcStart
    /\ component = "Engine" \/ EngineStart
    /\ component = "Weather" \/ AutoStart
    /\ component = "Area" \/ AreaStart
    /\ component = "Window" \/ WindowStart
    /\ component = "Widget" \/ WidgetStart
    /\ component = "Pointer" \/ PointerStart
    /\ ViewStart

IndexInit ==
    /\ mounted = "Index"
    /\ backendConfigured = TRUE
    /\ IndexStart
    /\ OtherStart("Index")

IndexNext ==
    \/ \E loc \in IndexLocations : HandleLocationSelect(loc)
    \/ \E d \in IndexDates : SetSelectedDate(d)
    \/ \E e \in ThresholdEdits : HandleThresholdChange(e[1], e[2], e[3])
    \/ HandleAnalyze
    \/ IndexFetchSettles(IndexDraws)
    \/ BackToSelection

\* The draws in which Math.random() returns the same value six times.
EqualDraws == {r \in IndexDraws : \A f, g \in DOMAIN r : r[f] = r[g]}

\* The Index page with the catch block's draws taken from EqualDraws.
LiveIndexNext ==
    \/ \E loc \in IndexLocations : HandleLocationSelect(loc)
    \/ \E d \in IndexDates : SetSelectedDate(d)
    \/ \E e \in ThresholdEdits : HandleThresholdChange(e[1], e[2], e[3])
    \/ HandleAnalyze
    \/ IndexFetchSettles(EqualDraws)
    \/ BackToSelection

GlobeInit ==
    /\ mounted = "Globe"
    /\ backendConfigured \in BOOLEAN
    /\ GlobeStart
    /\ OtherStart("Globe")

GlobeNext ==
    \/ \E loc \in GlobeLocations : GlobeSelectLocation(loc)
    \/ \E d \in GlobeDates : GlobeSetEventDate(d)
    \/ \E call \in globeInFlight, outcome \in FetchOutcomes : GlobeSettled(call, outcome)

MapInit ==
    /\ mounted = "Map2D"
    /\ backendConfigured \in BOOLEAN
    /\ MapStart
    /\ OtherStart("Map2D")

MapNext ==
    \/ \E q \in Queries : HandleSearch(q)
    \/ SearchReverseSettled
    \/ \E hit \in GeocodeHits : SearchGeocodeSettled(hit)
    \/ MapCheckMyDay
    \/ \E d \in MapDates : MapSetEventDate(d)
    \/ \E call \in mapInFlight, outcome \in FetchOutcomes : MapSettled(call, outcome)

\* The dashboard as mounted by its parent with some props, after its first render.
DashInit ==
    /\ mounted = "Dashboard"
    /\ backendConfigured = TRUE
    /\ dashLocation \in IndexLocations
    /\ dashDate \in IndexDates
    /\ dashAnalysisData \in DashAnalyses(dashLocation, dashDate)
    /\ shownAlternatives \in {alternativeDatesShown(dashAnalysisData, r) : r \in DashDraws}
    /\ exportedCsv = NoData
    /\ exportedJson = NoData
    /\ OtherStart("Dashboard")

DashNext ==
    \/ \E r \in DashDraws : DashboardRender(r)
    \/ HandleExportCSV
    \/ HandleExportJSON

GeoInit ==
    /\ mounted = "Geocode"
    /\ backendConfigured \in BOOLEAN
    /\ GeoStart
    /\ OtherStart("Geocode")

GeoNext ==
    \/ \E q \in GeoQueries : GeocodeStart(q)
    \/ GeocodeReversed
    \/ \E outcome \in GeoOutcomes : GeocodeFetched(outcome)

WidgetInit ==
    /\ mounted = "Widget"
    /\ backendConfigured = FALSE
    /\ WidgetStart
    /\ OtherStart("Widget")

WidgetNext ==
    \/ \E props \in WidgetPropsSet : WidgetEffect(props)
    \/ \E call \in widgetInFlight, meteomatics \in MeteomaticsOutcomes,
          openMeteo \in OpenMeteoOutcomes, threw \in BOOLEAN,
          simulated \in SimulatedConditions :
            WidgetSettled(call, meteomatics, openMeteo, threw, simulated)

PointerInit ==
    /\ mounted = "Pointer"
    /\ backendConfigured = FALSE
    /\ PointerStart
    /\ OtherStart("Pointer")

PointerNext ==
    \/ \E p \in PointerPositions : HandlePointerDown(p)
    \/ \E p \in PointerPositions : HandlePointerMove(p)
    \/ HandleClick

CalcInit ==
    /\ mounted = "Calc"
    /\ backendConfigured = FALSE
    /\ CalcStart
    /\ OtherStart("Calc")

CalcNext ==
    \/ \E loc \in GlobeLocations, d \in GlobeDates : CalcEvaluate(loc, d)
    \/ \E field \in ThresholdFields : CalcStricter(field)

EngineInit ==
    /\ mounted = "Engine"
    /\ backendConfigured = TRUE
    /\ EngineStart
    /\ OtherStart("Engine")

\* The engine's steps for the requests, the records the real sources can
\* hold, the ways an adapter call can end and the chain's choices to retry.
EngineSteps(requests, kinds, outcomes, retries) ==
    \/ \E r \in requests, d \in EngineDates : EngineSubmit(r, d)
    \/ \E r \in requests, v \in VariableSet, outcome \in outcomes, kind \in kinds,
          retry \in retries : EngineAdapterReturns(r, v, outcome, kind, retry)
    \/ \E r \in requests, v \in VariableSet : EngineSynthetic(r, v)
    \/ \E r \in requests, v \in VariableSet : EngineAggregate(r, v)
    \/ \E r \in requests, v \in VariableSet : EngineAnalyze(r, v)
    \/ \E r \in requests : EngineScore(r)
    \/ \E r \in requests, o \in EngineOffsets, source \in kinds \cup {"synthetic"} :
          EngineCandidateAggregated(r, o, source)
    \/ \E r \in requests, o \in EngineOffsets : EngineCandidateScored(r, o)
    \/ \E r \in requests : EngineRank(r)
    \/ \E r \in requests : EngineDiscard(r)

\* One request at a time, against every source behaviour.
EngineNext == EngineSteps({1}, SeriesKinds, AdapterOutcomes, BOOLEAN)

\* Concurrent requests, against sources that hold one record or fail and a
\* chain that does not retry.
EnginesNext == EngineSteps(EngineRequests, {"mixed"}, {"samples", "error"}, {FALSE})

WeatherInit ==
    /\ mounted = "Weather"
    /\ backendConfigured = TRUE
    /\ AutoStart
    /\ OtherStart("Weather")

WeatherNext ==
    \/ \E loc \in AutoLocations : AutoSetLocation(loc)
    \/ AutoIntervalFires
    \/ \E call \in autoInFlight, data \in WeatherReadings : AutoSettled(call, data)

AreaInit ==
    /\ mounted = "Area"
    /\ backendConfigured \in BOOLEAN
    /\ AreaStart
    /\ OtherStart("Area")

AreaNext ==
    \/ AreaToggleDraw
    \/ \E p \in AreaPoints : AreaClick(p)
    \/ AnalyzeArea
    \/ \E p \in AreaPoints, polygon \in AreaPolygons : AnalyzeWeatherRiskCalled(p, polygon)
    \/ \E outcome \in FetchOutcomes : AreaSettled(outcome)

WindowInit ==
    /\ mounted = "Window"
    /\ backendConfigured = TRUE
    /\ windowCall \in [day : WindowEventDays, window_days : WindowSizes,
                       record : SUBSET RecordDays]
    /\ windowSamples = NoSamples
    /\ OtherStart("Window")

WindowNext == WindowAggregated \/ WindowDiscarded

\* The Index page with its two views: the handlers of the app view can only
\* be reached while it is rendered, a pending fetch settles in either view.
IndexViewsNext ==
    \/ \E v \in Views : SetView(v)
    \/ /\ view = "app"
       /\ \/ \E loc \in IndexLocations : HandleLocationSelect(loc)
          \/ \E d \in IndexDates : SetSelectedDate(d)
          \/ \E e \in ThresholdEdits : HandleThresholdChange(e[1], e[2], e[3])
          \/ HandleAnalyze
          \/ BackToSelection
    \/ IndexFetchSettles(IndexDraws)

\* Some pending fetch of Map2D's analyzeWeatherRisk settles.
MapFetchSettles ==
    \E call \in mapInFlight, outcome \in FetchOutcomes : MapSettled(call, outcome)

\* The 2D map with one location to search for.
LiveQueries == {CoordQuery(28, ", ", 77)}

LiveMapNext ==
    \/ \E q \in LiveQueries : HandleSearch(q)
    \/ SearchReverseSettled
    \/ MapCheckMyDay
    \/ \E d \in MapDates : MapSetEventDate(d)
    \/ MapFetchSettles

\* The two components that keep an isAnalyzing flag.
AnalyzingInit == IndexInit \/ MapInit

AnalyzingNext == LiveIndexNext \/ LiveMapNext

\* The Index page with either of the components that analyse on their own.
AnalysisInit == IndexInit \/ GlobeInit

AnalysisNext == IndexNext \/ GlobeNext

vars == <<mounted, backendConfigured, idxVars, globeVars, mapVars, dashVars, geoVars,
          calcVars,
                engVars, autoVars, lateVars>>

SpecIndex == IndexInit /\ [][IndexNext]_vars

SpecGlobe == GlobeInit /\ [][GlobeNext]_vars

SpecMap == MapInit /\ [][MapNext]_vars

SpecDashboard == DashInit /\ [][DashNext]_vars

SpecWidget == WidgetInit /\ [][WidgetNext]_vars

SpecPointer == PointerInit /\ [][PointerNext]_vars

SpecGeocode == GeoInit /\ [][GeoNext]_vars

SpecCalc == CalcInit /\ [][CalcNext]_vars

SpecAnalysis == AnalysisInit /\ [][AnalysisNext]_vars

SpecEngine == EngineInit /\ [][EngineNext]_vars

SpecEngines == EngineInit /\ [][EnginesNext]_vars

SpecWeather == WeatherInit /\ [][WeatherNext]_vars

SpecArea == AreaInit /\ [][AreaNext]_vars

SpecWindow == WindowInit /\ [][WindowNext]_vars

SpecIndexViews == IndexInit /\ [][IndexViewsNext]_vars

\* The browser settles every fetch: with a response, or with an error once
\* the connection fails or times out.
LiveSpecIndex ==
    IndexInit /\ [][LiveIndexNext]_vars /\ WF_vars(IndexFetchSettles(EqualDraws))

LiveSpecAnalyzing ==
    /\ AnalyzingInit /\ [][AnalyzingNext]_vars
    /\ WF_vars(IndexFetchSettles(EqualDraws))
    /\ WF_vars(MapFetchSettles)

(***************************************************************************)
(* Properties.                                                             *)
(***************************************************************************)
Range(seq) == {seq[i] : i \in DOMAIN seq}

ProbabilitiesInRange(probabilities) ==
    \A p \in Range(probabilities) :
        /\ p.probability >= Pct(0) /\ p.probability <= Pct(100)
        /\ p.confidence >= 0 /\ p.confidence <= 100

\* C1: every probability shown or returned lies in [0,100], every confidence
\* in [0,1] and every comfort index in [0,100], whether the backend or a
\* fallback supplied the data.
ResultsInRange ==
    /\ analysisData # NoData =>
          /\ ProbabilitiesInRange(analysisData.probabilities)
          /\ analysisData.comfort_index \in 0..100
    /\ ProbabilitiesInRange(weatherProbabilities)
    /\ globeResult # NoData =>
          /\ ProbabilitiesInRange(globeResult.probabilities)
          /\ globeResult.comfortIndex \in 0..100

\* The globe shows a local simulation in which both clamps acted.
ClampedFallbackShown ==
    /\ globeResult # NoData /\ globeResult.origin = "fallback"
    /\ weatherProbabilities # <<>>
    /\ weatherProbabilities[1].probability = Pct(5)
    /\ weatherProbabilities[2].probability = Pct(90)

\* C2 (as stated): every dataset an export names is one that supplied the
\* exported data, i.e. one of the analysis' datasets_used.
ExportNamesOnlyUsedSources ==
    (exportedCsv # NoData /\ dashAnalysisData # NoData) =>
        \A row \in Range(exportedCsv.rows) :
            row.Dataset \in Range(dashAnalysisData.metadata.datasets_used)

\* The globe's fallback runs with the same location, date and thresholds all
\* gave the same result.
GlobeFallbackReproducible ==
    \A a, b \in globeFallbackRuns :
        <<a.loc, a.date, a.thr>> = <<b.loc, b.date, b.thr>> => a = b

\* handleAnalyze's fallback has run again for the location and date of the
\* fallback analysis on display.
IndexFallbackRerun ==
    /\ idxRequest # NoData /\ idxRequest' = NoData
    /\ idxOrigin = "fallback" /\ idxOrigin' = "fallback"
    /\ analysisData'.location = analysisData.location
    /\ analysisData'.event_date = analysisData.event_date

TriedInStatedOrder ==
    \A i \in DOMAIN geoTried :
        i <= Len(statedOrder) /\ geoTried[i] = statedOrder[i]

\* C5: an error of the analysis fetch (HTTP status, network, unparsable body)
\* never escapes analyzeWeatherRisk; its caller gets the fallback result.
AnalysisErrorsCaught ==
    globeResult # NoData =>
        /\ ~globeResult.threw
        /\ globeResult.origin \in {"backend", "fallback"}
        /\ weatherProbabilities = globeResult.probabilities

\* A fetch of the configured backend failed and the fallback took over.
FetchErrorAbsorbed ==
    /\ backendConfigured
    /\ globeResult # NoData /\ globeResult.origin = "fallback"
    /\ showAnalysis

InvalidCoordinatesRejected ==
    /\ \A c \in sourceCalls : validRange(c)
    /\ mapLocation # NoLocation => validRange(mapLocation)

StricterNeverIncreases ==
    [][(calcThresholds' # calcThresholds) =>
          \A i \in DOMAIN calcProbabilities :
              calcProbabilities'[i].probability <= calcProbabilities[i].probability]_vars

\* The simulation was evaluated with the hot threshold raised and the cold
\* threshold lowered as far as the model goes.
StricterThresholdsEvaluated ==
    /\ calcThresholds.hotTemp = DefaultThresholds.hotTemp + MaxShift
    /\ calcThresholds.coldTemp = DefaultThresholds.coldTemp - MaxShift

\* C10 (as stated): the comfort index the analysis panel shows for the
\* probabilities equals the comfort_index of the analysis they belong to.
ComfortPlacesAgree ==
    analysisData # NoData =>
        panelComfortIndex(analysisData.probabilities) = analysisData.comfort_index

\* The sum, in hundredths, of the weights calculateComfortIndex applies to
\* the conditions of a list.
RECURSIVE WeightSum(_)
WeightSum(probabilities) ==
    IF probabilities = <<>> THEN 0
    ELSE ComfortWeight(Head(probabilities).condition)
         + WeightSum(Tail(probabilities))

\* C11 (as stated): the weights the comfort scorer applies to the conditions
\* of the analysis on display sum to 1.0, whichever conditions are present.
ComfortWeightsSumToOne ==
    (showAnalysis /\ weatherProbabilities # <<>>) =>
        WeightSum(weatherProbabilities) = 100


\* Comfort indexes lie in 0..100, so no larger margin behaves differently.
Margins == 0..100

\* C12 (as stated): some fixed margin explains the recommendation of every
\* alternative date of the analysis on display: Better above baseline +
\* margin, Risky below baseline - margin, Monitor otherwise.
AlternativesClassifiedByMargin ==
    analysisData # NoData =>
        \E margin \in Margins :
            \A alt \in Range(analysisData.alternative_dates) :
                alt.recommendation =
                    Classify(analysisData.comfort_index, alt.comfort_index, margin)


\* C13 (as stated): the alternative_dates of the analysis on display are
\* sorted by descending comfort_index, equal ones by smaller absolute offset.
AlternativesSorted ==
    analysisData # NoData =>
        \A i, j \in DOMAIN analysisData.alternative_dates :
            i < j => RanksBefore(analysisData.alternative_dates[i],
                                 analysisData.alternative_dates[j])

\* The trend the stated rule gives a slope and a p-value (both in
\* thousandths; 50 is the 0.05 significance level).
TrendOf(trend_slope, p_value) ==
    IF trend_slope > 0 /\ p_value < 50 THEN "increasing"
    ELSE IF trend_slope < 0 /\ p_value < 50 THEN "decreasing"
    ELSE "stable"

\* C14 (as stated): every probability entry of the analysis on display
\* reports the trend that its own trend_slope and p_value give: increasing or
\* decreasing by the slope's sign when p_value < 0.05, stable otherwise.
TrendMatchesStatistics ==
    analysisData # NoData =>
        \A prob \in Range(analysisData.probabilities) :
            prob.trend = TrendOf(prob.trend_slope, prob.p_value)

\* C15: a variable whose sample list is empty after aggregation is left out
\* of the response, every other requested variable is in it, and no request
\* fails.
EmptyVariableOnlyOmitted ==
    \A r \in EngineRequests :
        /\ engine[r].phase # "failed"
        /\ engine[r].phase = "responded" =>
              \A v \in VariableSet :
                  LET entries == {p \in Range(engine[r].response.probabilities) :
                                     p.condition = ConditionOf(v)}
                  IN IF WindowAggregate(engine[r].chain[v].raw,
                                        DayOfYear(engine[r].date)) = <<>>
                     THEN entries = {}
                     ELSE Cardinality(entries) = 1

\* A request answered with one variable omitted and the other one present.
RespondedWithoutOneVariable ==
    /\ engine[1].phase = "responded"
    /\ engine[1].chain["temperature"].stage = "omitted"
    /\ engine[1].chain["precipitation"].stage = "done"
    /\ Len(engine[1].response.probabilities) = 1

\* The calls a variable's chain can still make: two per adapter not yet
\* given up, one less once the current adapter was retried.
ChainPotential(c, v) ==
    IF c.stage # "chain" THEN 0
    ELSE 2 * (Len(EngineAdapters(v)) + 1 - c.adapter) + (IF c.retried THEN 0 ELSE 1)

\* C16: every step of a variable's chain, whatever the adapter call ended
\* with (a timeout included), brings the chain nearer its end: an adapter is
\* called twice at most, and the calls of one chain never exceed twice the
\* number of its adapters.
AdapterCallsBounded ==
    [][\A r \in EngineRequests, v \in VariableSet :
          (/\ engine[r].phase = "running"
           /\ engine'[r].phase = "running"
           /\ engine[r].chain[v].stage = "chain"
           /\ engine'[r].chain[v] # engine[r].chain[v]) =>
              /\ engine'[r].chain[v].calls <= 2 * Len(EngineAdapters(v))
              /\ ChainPotential(engine'[r].chain[v], v)
                    < ChainPotential(engine[r].chain[v], v)]_vars

\* A chain that called each of its adapters twice and ended in the generator.
EveryAdapterRetried ==
    /\ engine[1].chain["temperature"].source = "Synthetic"
    /\ engine[1].chain["temperature"].calls = 2 * Len(EngineAdapters("temperature"))

\* The stage a variable's pipeline moves to from each stage.
StageOrder ==
    {<<"chain", "aggregate">>, <<"aggregate", "analyze">>, <<"analyze", "done">>,
     <<"analyze", "omitted">>}

\* C17: in every step of a request a variable moves from 4.1 to 4.2 to 4.3
\* only, the comfort index is set only when every variable is through 4.3,
\* and the alternative-date search works and answers only when the comfort
\* index is set.
StepsInOrder ==
    [][\A r \in EngineRequests :
          (engine[r].phase = "running" /\ engine'[r].phase # "idle") =>
              /\ \A v \in VariableSet :
                    engine'[r].chain[v].stage # engine[r].chain[v].stage =>
                        <<engine[r].chain[v].stage, engine'[r].chain[v].stage>>
                            \in StageOrder
              /\ engine'[r].comfort # engine[r].comfort =>
                    \A v \in VariableSet :
                        engine[r].chain[v].stage \in {"done", "omitted"}
              /\ (\/ engine'[r].candidates # engine[r].candidates
                  \/ engine'[r].response # engine[r].response) =>
                    engine[r].comfort # -1]_vars

\* A request answered after both variables and both candidate dates went
\* through their pipelines.
AllStagesPassed ==
    /\ engine[1].phase = "responded"
    /\ \A v \in VariableSet : engine[1].chain[v].stage = "done"
    /\ Len(engine[1].response.alternative_dates) = Cardinality(EngineOffsets)

\* The entries of a request's candidate dates.
EntriesOf(req) == {EntryOf(req, o) : o \in EngineOffsets}

OwnResult(req) ==
    /\ \A v \in VariableSet :
          LET c == req.chain[v] IN
          /\ c.source = "Synthetic" =>
                c.raw = SyntheticSeries(v, EngineCoordinate, DayOfYear(req.date))
          /\ c.source \notin {"none", "Synthetic"} =>
                c.raw \in {SeriesOf(v, DayOfYear(req.date), k) : k \in SeriesKinds}
          /\ c.stage = "done" =>
                c.stats = StatisticsOf(v, c.raw, DayOfYear(req.date),
                                       c.source = "Synthetic")
    /\ req.comfort # -1 => req.comfort = ComfortScore(PresentStats(req))
    /\ req.phase = "responded" =>
          \E ranking \in Rankings(EntriesOf(req)) :
              req.response = ResultOf(req, ranking)

\* C19: a step of one request changes nothing of any other request, and what
\* a request holds and answers follows from its own inputs and source
\* responses, whatever ran before it or runs beside it.
RequestsIndependent ==
    /\ [](\A r \in EngineRequests : OwnResult(engine[r]))
    /\ [][\A r \in EngineRequests :
             engine'[r] # engine[r] =>
                 \A q \in EngineRequests \ {r} : engine'[q] = engine[q]]_vars

\* Two requests for different dates in progress at once, one answered.
TwoRequestsInProgress ==
    /\ engine[1].phase = "responded"
    /\ engine[2].phase = "running"
    /\ engine[2].comfort # -1
    /\ engine[1].date # engine[2].date

\* C20 (as stated): when the call of a fetch whose location is no longer the
\* selected one returns, nothing the hook shows changes.
AbandonedCallsChangeNothing ==
    [][\A call \in autoInFlight :
          (call \notin autoInFlight' /\ call.loc # autoLocation) =>
              /\ weatherType' = weatherType
              /\ autoLoading' = autoLoading
              /\ autoError' = autoError
              /\ lastUpdate' = lastUpdate]_vars

AbsoluteDay(year, day) == year * DaysPerYear + day - 1

\* C22: for each year of the range the aggregator returns exactly the
\* record's samples whose calendar day lies within window_days (inclusive) of
\* the event's day in that year, across Dec 31 / Jan 1, each under the year
\* of the event day.
WindowCollectsCalendarDays ==
    windowSamples.returned =>
        \A y \in WindowYears, s \in windowCall.record :
            ([group |-> y, sample |-> s] \in windowSamples.samples)
            <=> MathAbs(AbsoluteDay(s.year, s.day) - AbsoluteDay(y, windowCall.day))
                    <= windowCall.window_days

\* A window around Jan 2 took Dec 31 of the year before into the event's year.
DecemberDayInJanuaryWindow ==
    /\ windowSamples.returned
    /\ windowCall.day = 2 /\ windowCall.window_days = 2
    /\ [group |-> 2024, sample |-> Sample(2023, 365, 12)] \in windowSamples.samples
    /\ [group |-> 2024, sample |-> Sample(2024, 365, 15)] \notin windowSamples.samples

\* The confidence the documented real-data analysis reports ("85%").
RealConfidenceCeiling == 85

\* C23 (as stated): the ceiling for invented data lies below the ceiling for
\* real data, so no entry of a simulated analysis reports a confidence as
\* high as real data can.
SyntheticConfidenceBelowReal ==
    (globeResult # NoData /\ globeResult.origin = "fallback") =>
        \A i \in DOMAIN globeResult.probabilities :
            globeResult.probabilities[i].confidence < RealConfidenceCeiling

\* m (in tenths) is the arithmetic mean of the values of samples.
IsMeanOf(m, samples) ==
    /\ samples # << >>
    /\ m * Len(samples) = 10 * SumOfValues(samples)

\* C24 (as stated): historical_mean of every entry the fallback returns is
\* the arithmetic mean of the samples obtained for it.
HistoricalMeanIsSampleMean ==
    (analysisData # NoData /\ idxOrigin = "fallback") =>
        \A i \in DOMAIN analysisData.probabilities :
            IsMeanOf(analysisData.probabilities[i].historical_mean,
                     fallbackSamples(analysisData.probabilities[i].condition))

\* What an analysis of the selected location and date can return.
CurrentAnalyses ==
    {analyzeWeatherRisk(globeLocation, eventDate, DefaultThresholds, outcome, data) :
        outcome \in FetchOutcomes,
        data \in BackendResponses(globeRequest(globeLocation, eventDate,
                                               DefaultThresholds))}

\* C25 (as stated): once every response has arrived, the globe displays the
\* analysis issued last, the one of the selected location and date.
LatestAnalysisDisplayed ==
    (globeLocation # NoLocation /\ globeIssued > 0 /\ globeInFlight = {}) =>
        /\ globeResult \in CurrentAnalyses
        /\ weatherProbabilities = globeResult.probabilities

\* C26: every call that set isAnalyzing ends, on success and on every kind of
\* failure, and its end clears the flag; with no analysis in flight the flag
\* is false.
AnalyzingAlwaysCleared ==
    /\ [](idxRequest = NoData => ~isAnalyzing)
    /\ [](mapInFlight = {} => ~mapIsAnalyzing)
    /\ [][/\ (idxRequest # NoData /\ idxRequest' = NoData) => ~isAnalyzing'
          /\ (mapInFlight' # mapInFlight /\ mapInFlight' \subseteq mapInFlight)
                => ~mapIsAnalyzing']_vars
    /\ (idxRequest # NoData) ~> (idxRequest = NoData)
    /\ \A id \in 1..MaxRuns :
          (\E call \in mapInFlight : call.id = id)
              ~> ~(\E call \in mapInFlight : call.id = id)

\* A failed analysis of the 2D map has ended and left the flag cleared.
FailedAnalysisCleared ==
    /\ mounted = "Map2D" /\ backendConfigured
    /\ mapIssued > 0 /\ mapInFlight = {}
    /\ mapOrigin = "fallback" /\ ~mapIsAnalyzing

\* C27: on the Index page showResults implies that analysisData is set,
\* whatever analyses, back-to-selection clicks and view switches came before.
ResultsShownHaveData == showResults => analysisData # NoData

\* The results are kept while the hero view is shown.
ResultsKeptInHeroView ==
    /\ view = "hero" /\ showResults /\ analysisData # NoData
    /\ idxRequest = NoData

\* C28: every fetchWeather call of CurrentWeatherWidget that completes leaves
\* loading false and weatherData non-null, and the data it stored has
\* data_source 'simulated' exactly when getCurrentWeather returned null or
\* the try block threw.
CompletedFetchStoresData ==
    [][lastFetch' # lastFetch =>
         /\ loading' = FALSE
         /\ widgetWeatherData' # NoData
         /\ (widgetWeatherData'.data_source = "simulated"
               <=> (lastFetch'.returned = NoData \/ lastFetch'.threw))]_vars

\* A fetch for which getCurrentWeather returned null has completed and the
\* widget shows simulated data under the location's name.
SimulatedAfterNull ==
    /\ lastFetch # NoData
    /\ lastFetch.returned = NoData
    /\ ~lastFetch.threw
    /\ widgetWeatherData # NoData
    /\ widgetWeatherData.data_source = "simulated"
    /\ widgetWeatherData.location_name = "Delhi"
    /\ ~loading

IsHighestScoring(result, candidates) ==
    \E i \in DOMAIN candidates :
        /\ \A j \in DOMAIN candidates : candidates[j].score <= candidates[i].score
        /\ result.lat = candidates[i].lat
        /\ result.lng = candidates[i].lon

\* C29 as stated: whenever geocode has resolved, its result is null or is
\* taken from the highest-scoring candidate.
ResolvesBestCandidateOrNull ==
    geoPending = "done" =>
        \/ geoResult = NoLocation
        \/ IsHighestScoring(geoResult, geoCandidates)

\* C29: geocode always resolves; for a "lat,lng" query with the coordinates
\* parsed from the query, and for every other query and every combination of
\* provider failures with null or with the place and label of a candidate no
\* other candidate outscores.
ResolvesCoordinatesBestOrNull ==
    geoPending = "done" =>
        IF coordMatch(geoQuery) # NoLocation
        THEN geoResult = coordMatch(geoQuery)
        ELSE \/ geoResult = NoLocation
             \/ /\ IsHighestScoring(geoResult, geoCandidates)
                /\ \E i \in DOMAIN geoCandidates : geoResult.name = geoCandidates[i].label

\* A name query resolved with a candidate that outscores the one listed
\* before it.
BestCandidateNotFirst ==
    /\ geoPending = "done"
    /\ geoQuery.kind = "name"
    /\ Len(geoCandidates) >= 2
    /\ geoCandidates[1].score < geoCandidates[2].score
    /\ geoResult.lat = geoCandidates[2].lat
    /\ geoResult.lng = geoCandidates[2].lon

====
